---- MODULE Spec2Model ----
(***************************************************************************)
(* Window lifecycle of the desktop shell: BrowserManager (identity         *)
(* registry), Browser (one per identifier, owning a native BrowserWindow), *)
(* WindowErrorHandler (error page, retry handler on ipcMain) and the load  *)
(* sequence placeholder -> content.                                        *)
(*                                                                         *)
(* The program runs on one event loop.  Every action below is one          *)
(* run-to-completion step of it: a synchronous call with every call it     *)
(* makes, or the continuation of an async function after one await.        *)
(* The synchronous code is written as operators from a state record to a   *)
(* state record, so that a caller composes its callees as the code does.   *)
(***************************************************************************)
EXTENDS Integers, FiniteSets, Sequences, TLC

\* ------------------------------------------------------------------ bounds
\* native BrowserWindow objects created in one behaviour, all identifiers together
MaxWin == 2
\* async functions suspended at the same time, all identifiers together
MaxTasks == 2
\* loads of a live window that fail in one behaviour (a destroyed window
\* always fails its loads; those are not counted)
MaxFailures == 2
\* retry invocations in flight per identifier
MaxRetryInFlight == 2
\* redirectToPage calls in flight per identifier
MaxRedirectInFlight == 1
\* Browser objects constructed per identifier (only a faulty registry needs 2)
MaxBrowsers == 2
\* steps of the clock in one behaviour of CrashSpec
MaxTicks == 8
\* native BrowserWindow objects created in one behaviour of RegistrySpec
MaxRegistryWin == 3
\* native BrowserWindow objects constructed in one behaviour of GeometrySpec
MaxGeometryWin == 4

\* ------------------------------------------------------------------ catalog
\* appBrowsers: the static window catalog.  "" stands for an absent
\* parentIdentifier; an absent keepAlive / showOnInit is falsy.
appBrowsers ==
  [chat     |-> [identifier |-> "chat", keepAlive |-> TRUE, showOnInit |-> TRUE,
                 parentIdentifier |-> "", path |-> "/chat"],
   devtools |-> [identifier |-> "devtools", keepAlive |-> FALSE, showOnInit |-> FALSE,
                 parentIdentifier |-> "chat", path |-> "/desktop/devtools"],
   settings |-> [identifier |-> "settings", keepAlive |-> FALSE, showOnInit |-> FALSE,
                 parentIdentifier |-> "chat", path |-> "/settings"]]

\* AppBrowsersIdentifiers = keyof typeof appBrowsers
AppBrowsersIdentifiers == DOMAIN appBrowsers

\* identifiers handed to the registry at run time that the catalog does not hold
UnknownIdentifiers == {"provider"}

\* sub-paths handed to redirectToPage ("" is the absent subPath of the initial load)
SubPaths == {"agent"}

\* serials of the native windows of one identifier
Wins == 1..(IF MaxWin > MaxRegistryWin THEN MaxWin ELSE MaxRegistryWin)

\* What a native window displays: the last document that loaded in it.
Pages == {"blank", "splash", "content", "error", "fallback"}

\* RETRY_CONNECTION_CONFIG.RETRY_HANDLER_PREFIX + identifier: the channel is
\* determined by the identifier, so the identifier stands for the key.
retryHandlerKey(id) == <<"retry-connection-", id>>

NoHandler == [url |-> <<>>, w |-> 0]
\* ev when the step just taken is one no property is stated about
Step == [type |-> "step", id |-> "", ok |-> TRUE]

\* Date.now() when the process starts, in ms.  The real value is the time
\* since 1970; all that the crash policy reads from it is that it exceeds the
\* threshold, so that a first crash (last crash time 0) counts as long ago.
StartTime == 100 * 1000
\* the clock advances in steps of 10 s
Tick == 10 * 1000

VARIABLES
  browsers,             \* BrowserManager.browsers: id -> serial of the Browser registered, 0 = none
  browserCount,         \* number of Browser objects constructed per id
  cur,                  \* Browser._browserWindow: serial of the native window, 0 = undefined
  nwin,                 \* native windows created so far per id
  alive,                \* native windows that are not destroyed, per id
  visible,              \* native windows that are visible, per id
  page,                 \* id -> serial -> what the window displays
  eventListenersSetup,  \* Browser.eventListenersSetup
  listeners,            \* native windows carrying Browser's ready-to-show / close listeners
  readyPending,         \* native windows whose ready-to-show has not fired
  mgrWin,               \* the window the managers (errorHandler, displayManager, ...) hold, 0 = no managers
  interceptors,         \* sessions whose nextInterceptor is running
  stopInterceptHandler, \* Browser.stopInterceptHandler: the window whose interceptor it stops, 0 = undefined
  invokeHandlers,       \* ipcMain's handlers of ipcMain.handle, by retry key: [url, w] or NoHandler
  isQuiting,            \* App.isQuiting
  tasks,                \* async functions suspended at an await
  placeholderStarted,   \* history: native windows on which loadPlaceholder() was called
  failures,             \* loads of live windows that have failed so far
  themeListeners,       \* the 'updated' listeners on nativeTheme: <<id, w>> is handleThemeChange
                        \* of the WindowThemeManager built for native window w of id
  themeListenerSetup,   \* id -> WindowThemeManager.themeListenerSetup of id's manager
  ev                    \* history: the step just taken, or Step

\* renderer crashes (WindowLifecycleManager)
VARIABLES
  now,                          \* Date.now(), in ms
  lastRendererProcessCrashTime, \* id -> lastRendererProcessCrashTime of the WindowLifecycleManager
                                \* of id's native window
  exitCode,                     \* 0 while the process runs, else the status given to app.exit
  crashTimes                    \* history: id -> the times of the latest crashes (at most two) of
                                \* id's native window, the latest first

\* the zoom factor (WindowLifecycleManager, storeManager)
VARIABLES
  zoomStore,   \* storeManager's 'zoomFactor', in percent; one value for the process
  zoomWindow,  \* id -> id's native window as the zoom handling sees it: live, pending (its
               \* ready-to-show has not fired), factor (webContents zoom factor, in percent)
  zoomLastSet  \* history: id -> the factor the last setZoomFactor on id's live native window
               \* gave, 0 when there was none

zoomVars == <<zoomStore, zoomWindow, zoomLastSet>>

\* the registry's order and its index of channels (BrowserManager), broadcasts
VARIABLES
  order,          \* the keys of BrowserManager.browsers in insertion order (the order of forEach)
  webContentsMap, \* BrowserManager.webContentsMap: pairs <<channel, identifier>>, a channel
                  \* (the webContents of a native window) being <<id, serial>>
  mapListeners,   \* id -> the native window carrying the close / show listeners of
                  \* setupWebContentsMapping, 0 = none
  delivered,      \* history: the channels the broadcast just made sent to, in order
  positioned      \* history: the identifiers whose window the step just made placed on
                  \* the display of its parent's window

registryVars == <<order, webContentsMap, mapListeners, delivered, positioned>>

\* the geometry of the windows and its files (WindowConfigBuilder, state keeper)
VARIABLES
  stateFiles,  \* file name -> the geometry record persisted in it (present = FALSE: no file)
  geometry,    \* id -> the bounds of id's native window (open = FALSE: none)
  constructed, \* native windows constructed so far
  savedBy,     \* history: id -> the record last persisted for a window of id
  workArea     \* history: the work area of the display the positioning just made used

geometryVars == <<stateFiles, geometry, constructed, savedBy, workArea>>

\* what the windows display (WindowDisplayManager), the dock
VARIABLES
  platform,   \* process.platform: "darwin" (isMac), "linux" (isLinux) or "win32"
  native,     \* id -> the display state of id's native window: live, isVisible, isFocused,
              \* isFullScreen, isMinimized, visible-on-all-workspaces flag
  wasMainWindowFocused, \* id -> WindowDisplayManager.wasMainWindowFocused of id's manager
  dockHidden, \* app.dock is hidden (macOS)
  calls       \* history: the calls the operation just made on native windows, in order

displayVars == <<platform, native, wasMainWindowFocused, dockHidden, calls>>

\* the windows and their loads, without ev
windowVars == <<browsers, browserCount, cur, nwin, alive, visible, page, eventListenersSetup,
                listeners, readyPending, mgrWin, interceptors, stopInterceptHandler,
                invokeHandlers, isQuiting, tasks, placeholderStarted, failures,
                themeListeners, themeListenerSetup>>

crashVars == <<now, lastRendererProcessCrashTime, exitCode, crashTimes, zoomVars>>

vars == <<windowVars, crashVars, registryVars, geometryVars, displayVars, ev>>

\* ------------------------------------------------------------------ geometry
\* DEFAULT_WINDOW_CONFIG (const/theme.ts), the sizes
DEFAULT_WINDOW_CONFIG ==
  [DEFAULT_HEIGHT |-> 800, DEFAULT_WIDTH |-> 1200,
   DEVTOOLS_WINDOW |-> [HEIGHT |-> 600, WIDTH |-> 1000],
   MIN_HEIGHT |-> 600, MIN_WIDTH |-> 480,
   SETTINGS_WINDOW |-> [HEIGHT |-> 800, MIN_WIDTH |-> 600, WIDTH |-> 1000]]

\* appBrowsers: the size options of the catalog
appBrowsersSize ==
  [chat     |-> [height |-> DEFAULT_WINDOW_CONFIG.DEFAULT_HEIGHT,
                 width |-> DEFAULT_WINDOW_CONFIG.DEFAULT_WIDTH,
                 minWidth |-> DEFAULT_WINDOW_CONFIG.MIN_WIDTH, maximizable |-> TRUE],
   devtools |-> [height |-> DEFAULT_WINDOW_CONFIG.DEVTOOLS_WINDOW.HEIGHT,
                 width |-> DEFAULT_WINDOW_CONFIG.DEVTOOLS_WINDOW.WIDTH,
                 minWidth |-> DEFAULT_WINDOW_CONFIG.MIN_WIDTH, maximizable |-> FALSE],
   settings |-> [height |-> DEFAULT_WINDOW_CONFIG.SETTINGS_WINDOW.HEIGHT,
                 width |-> DEFAULT_WINDOW_CONFIG.SETTINGS_WINDOW.WIDTH,
                 minWidth |-> DEFAULT_WINDOW_CONFIG.SETTINGS_WINDOW.MIN_WIDTH, maximizable |-> TRUE]]

\* the bounds a user gives a window by moving and resizing it; the window
\* system keeps a window at or above its minimum size
UserBounds ==
  {[x |-> 100, y |-> 50, width |-> 1200, height |-> 800],
   [x |-> 0, y |-> 20, width |-> 480, height |-> 600]}

\* where the window system puts a window constructed without x and y
PlatformPositions == {[x |-> 360, y |-> 140]}

\* a persisted geometry record; present = FALSE stands for no file
GeometryRecord(x, y, width, height, isMaximized) ==
  [present |-> TRUE, x |-> x, y |-> y, width |-> width, height |-> height,
   isMaximized |-> isMaximized]

NoRecord ==
  [present |-> FALSE, x |-> 0, y |-> 0, width |-> 0, height |-> 0, isMaximized |-> FALSE]

\* the bounds of a native window: x, y, width, height are those of its
\* normal (not maximized) state; restore tells that a maximize is due at
\* ready-to-show
NoWindow ==
  [open |-> FALSE, x |-> 0, y |-> 0, width |-> 0, height |-> 0, isMaximized |-> FALSE,
   restore |-> FALSE]

\* the work areas of the attached displays (screen): a large primary display
\* with a menu bar and a small one to its right
Displays ==
  {[x |-> 0, y |-> 25, width |-> 1440, height |-> 875],
   [x |-> 1440, y |-> 0, width |-> 1024, height |-> 728]}

\* no positioning made
NoDisplay == [x |-> 0, y |-> 0, width |-> 0, height |-> 0]

\* WindowDisplayManager.centerOnDisplay on work area wa: Math.round(wa.x +
\* (wa.width - width) / 2), Math.round rounding a half up; then setPosition
centerOnDisplay(g, wa) ==
  [g EXCEPT !.x = wa.x + ((wa.width - g.width + 1) \div 2),
            !.y = wa.y + ((wa.height - g.height + 1) \div 2)]

\* WindowPositionManager.positionWindowOnDisplay on work area wa:
\* Math.floor(Math.max(wa.x + (wa.width - width) / 2, wa.x)); then setPosition
positionWindowOnDisplay(g, wa) ==
  [g EXCEPT !.x = IF wa.width >= g.width THEN wa.x + ((wa.width - g.width) \div 2) ELSE wa.x,
            !.y = IF wa.height >= g.height THEN wa.y + ((wa.height - g.height) \div 2)
                  ELSE wa.y]

\* Faulty variant: one geometry file for all the windows.
stateFile_Shared(id) == <<"window-state", ".json">>

\* file: `window-state-${this.options.identifier}.json`
stateFile(id) == <<"window-state-", id, ".json">>

StateFileNames == {stateFile(id) : id \in AppBrowsersIdentifiers}

\* WindowConfigBuilder.initializeWindowStateKeeper: the keeper holds the
\* record of the identifier's file, or the default size and no position
initializeWindowStateKeeper(files, id) ==
  LET rec == files[stateFile(id)]
      h == appBrowsersSize[id].height
      w == appBrowsersSize[id].width
  IN IF rec.present THEN rec
     ELSE [present |-> FALSE, x |-> 0, y |-> 0,
           width |-> IF w # 0 THEN w ELSE DEFAULT_WINDOW_CONFIG.DEFAULT_WIDTH,
           height |-> IF h # 0 THEN h ELSE DEFAULT_WINDOW_CONFIG.DEFAULT_HEIGHT,
           isMaximized |-> FALSE]

\* WindowConfigBuilder.build: ...rest first, then height, width, x, y of the
\* keeper and the minimum size of DEFAULT_WINDOW_CONFIG over it
build(id, keeper) ==
  [hasPosition |-> keeper.present, x |-> keeper.x, y |-> keeper.y,
   width |-> keeper.width, height |-> keeper.height,
   minWidth |-> DEFAULT_WINDOW_CONFIG.MIN_WIDTH,
   minHeight |-> DEFAULT_WINDOW_CONFIG.MIN_HEIGHT]

\* new BrowserWindow(config): at the configured position, or where the
\* window system puts it (pos); never below the minimum size
newBrowserWindow(config, pos, restore) ==
  [open |-> TRUE,
   x |-> IF config.hasPosition THEN config.x ELSE pos.x,
   y |-> IF config.hasPosition THEN config.y ELSE pos.y,
   width |-> IF config.width < config.minWidth THEN config.minWidth ELSE config.width,
   height |-> IF config.height < config.minHeight THEN config.minHeight ELSE config.height,
   isMaximized |-> FALSE, restore |-> restore]

\* ------------------------------------------------------------------ display: data
\* process.platform as read by isMac / isLinux and process.platform === 'win32'
Platforms == {"darwin", "linux", "win32"}

\* the display state of a native window that does not exist or is destroyed
NoNative ==
  [live |-> FALSE, visible |-> FALSE, focused |-> FALSE, fullscreen |-> FALSE,
   minimized |-> FALSE, visibleOnAllWorkspaces |-> FALSE]

\* zoom factors, in percent; storeManager.get('zoomFactor', 1) defaults to
\* 100 %, the factor of a new webContents
ZoomFactors == {100, 150}
DefaultZoomFactor == 100
NoZoomWindow == [live |-> FALSE, pending |-> FALSE, factor |-> DefaultZoomFactor]

\* The state as one record, for the operators that model synchronous code.
\* overflow is set when a step would exceed a bound; such a step is not taken.
\* maxWin is the bound on the native windows created; thrown is set when
\* the call ended by a thrown fault.
State ==
  [browsers |-> browsers, browserCount |-> browserCount, cur |-> cur, nwin |-> nwin,
   alive |-> alive, visible |-> visible, page |-> page,
   eventListenersSetup |-> eventListenersSetup, listeners |-> listeners,
   readyPending |-> readyPending, mgrWin |-> mgrWin, interceptors |-> interceptors,
   stopInterceptHandler |-> stopInterceptHandler, invokeHandlers |-> invokeHandlers,
   isQuiting |-> isQuiting, tasks |-> tasks, placeholderStarted |-> placeholderStarted,
   failures |-> failures,
   themeListeners |-> themeListeners, themeListenerSetup |-> themeListenerSetup,
   order |-> order, webContentsMap |-> webContentsMap, mapListeners |-> mapListeners,
   delivered |-> <<>>, positioned |-> {},
   maxWin |-> MaxWin, thrown |-> FALSE,
   overflow |-> FALSE]

\* the windows and their loads after a step that ends in s
CommitWindows(s) ==
  /\ ~s.overflow
  /\ browsers' = s.browsers
  /\ browserCount' = s.browserCount
  /\ cur' = s.cur
  /\ nwin' = s.nwin
  /\ alive' = s.alive
  /\ visible' = s.visible
  /\ page' = s.page
  /\ eventListenersSetup' = s.eventListenersSetup
  /\ listeners' = s.listeners
  /\ readyPending' = s.readyPending
  /\ mgrWin' = s.mgrWin
  /\ interceptors' = s.interceptors
  /\ stopInterceptHandler' = s.stopInterceptHandler
  /\ invokeHandlers' = s.invokeHandlers
  /\ isQuiting' = s.isQuiting
  /\ tasks' = s.tasks
  /\ placeholderStarted' = s.placeholderStarted
  /\ failures' = s.failures
  /\ themeListeners' = s.themeListeners
  /\ themeListenerSetup' = s.themeListenerSetup

\* A step of Spec.  Spec follows the windows and their loads; it does not
\* follow the registry's order and index, which no load reads.
Commit(s, e) ==
  /\ CommitWindows(s)
  /\ Cardinality(s.tasks) <= MaxTasks
  /\ ev' = e
  /\ UNCHANGED <<crashVars, registryVars, geometryVars, displayVars>>

\* The state in which a step of RegistrySpec begins.
RegistryState == [State EXCEPT !.maxWin = MaxRegistryWin]

\* A step of RegistrySpec, which follows the registry, its index and the
\* broadcasts; the loads begun stay pending in it.  ok tells whether the
\* call returned (TRUE) or ended by a thrown fault.
RegistryCommit(s, type, id) ==
  /\ CommitWindows(s)
  /\ order' = s.order
  /\ webContentsMap' = s.webContentsMap
  /\ mapListeners' = s.mapListeners
  /\ delivered' = s.delivered
  /\ positioned' = s.positioned
  /\ ev' = [type |-> type, id |-> id, ok |-> ~s.thrown]
  /\ UNCHANGED <<crashVars, geometryVars, displayVars>>

\* the state after construction, in a process running on platform p
InitOn(p) ==
  /\ browsers = [id \in AppBrowsersIdentifiers |-> 0]
  /\ browserCount = [id \in AppBrowsersIdentifiers |-> 0]
  /\ cur = [id \in AppBrowsersIdentifiers |-> 0]
  /\ nwin = [id \in AppBrowsersIdentifiers |-> 0]
  /\ alive = [id \in AppBrowsersIdentifiers |-> {}]
  /\ visible = [id \in AppBrowsersIdentifiers |-> {}]
  /\ page = [id \in AppBrowsersIdentifiers |-> [w \in Wins |-> "blank"]]
  /\ eventListenersSetup = [id \in AppBrowsersIdentifiers |-> FALSE]
  /\ listeners = [id \in AppBrowsersIdentifiers |-> {}]
  /\ readyPending = [id \in AppBrowsersIdentifiers |-> {}]
  /\ mgrWin = [id \in AppBrowsersIdentifiers |-> 0]
  /\ interceptors = [id \in AppBrowsersIdentifiers |-> {}]
  /\ stopInterceptHandler = [id \in AppBrowsersIdentifiers |-> 0]
  /\ invokeHandlers = [id \in AppBrowsersIdentifiers |-> NoHandler]
  /\ isQuiting = FALSE
  /\ tasks = {}
  /\ placeholderStarted = [id \in AppBrowsersIdentifiers |-> {}]
  /\ failures = 0
  /\ themeListeners = {}
  /\ themeListenerSetup = [id \in AppBrowsersIdentifiers |-> FALSE]
  /\ ev = Step
  /\ now = StartTime
  /\ lastRendererProcessCrashTime = [id \in AppBrowsersIdentifiers |-> 0]
  /\ exitCode = 0
  /\ crashTimes = [id \in AppBrowsersIdentifiers |-> <<>>]
  /\ zoomStore = DefaultZoomFactor
  /\ zoomWindow = [id \in AppBrowsersIdentifiers |-> NoZoomWindow]
  /\ zoomLastSet = [id \in AppBrowsersIdentifiers |-> 0]
  /\ order = <<>>
  /\ webContentsMap = {}
  /\ mapListeners = [id \in AppBrowsersIdentifiers |-> 0]
  /\ delivered = <<>>
  /\ positioned = {}
  /\ stateFiles = [f \in StateFileNames |-> NoRecord]
  /\ geometry = [id \in AppBrowsersIdentifiers |-> NoWindow]
  /\ constructed = 0
  /\ savedBy = [id \in AppBrowsersIdentifiers |-> NoRecord]
  /\ workArea = NoDisplay
  /\ platform = p
  /\ native = [id \in AppBrowsersIdentifiers |-> NoNative]
  /\ wasMainWindowFocused = [id \in AppBrowsersIdentifiers |-> FALSE]
  /\ dockHidden = FALSE
  /\ calls = <<>>

\* The specifications that do not read the platform start on one platform.
Init == InitOn("darwin")

\* DisplaySpec starts on any platform.
DisplayInit == \E p \in Platforms : InitOn(p)

\* ------------------------------------------------------------------ native windows
\* w is a native window of id that exists and is not destroyed
NativeLive(s, id, w) == w # 0 /\ w \in s.alive[id]

\* the step just taken, for the properties stated about it: what happened,
\* to which identifier, and how it came out
Event(type, id, ok) == [type |-> type, id |-> id, ok |-> ok]

\* a suspended async function: kind is the function, pc the await it is
\* suspended at, w the native window whose load it awaits, n tells apart the
\* calls of one function (the window a load sequence began on, or a call slot)
Task(kind, id, pc, w, url, thenShow, n) ==
  [kind |-> kind, id |-> id, pc |-> pc, w |-> w, url |-> url, thenShow |-> thenShow, n |-> n]

\* app.nextServerUrl + path; redirectToPage's fullPath is baseRoute or baseRoute/subPath
Url(id, subPath) == <<appBrowsers[id].path, subPath>>

\* native windows created so far
Created(s) == s.nwin["chat"] + s.nwin["devtools"] + s.nwin["settings"]

\* ------------------------------------------------------------------ WindowThemeManager
\* new WindowThemeManager(window, identifier) for native window w: the flag
\* of the new manager is unset, so setupThemeListener adds handleThemeChange
\* to nativeTheme and sets it
newWindowThemeManager(s, id, w) ==
  [s EXCEPT !.themeListeners = @ \cup {<<id, w>>},
            !.themeListenerSetup[id] = TRUE]

\* WindowThemeManager.cleanup: resets the flag; nativeTheme is not touched
WindowThemeManager_cleanup(s, id) ==
  IF s.themeListenerSetup[id] THEN [s EXCEPT !.themeListenerSetup[id] = FALSE] ELSE s

\* ------------------------------------------------------------------ Browser
\* Browser.setupEventListeners: once per Browser until cleanupResources
\* resets the flag; registers ready-to-show (once) and close on the window.
setupEventListeners(s, id, w) ==
  IF s.eventListenersSetup[id] THEN s
  ELSE [s EXCEPT !.eventListenersSetup[id] = TRUE,
                 !.listeners[id] = @ \cup {w}]

\* Faulty variant: the new window goes straight to loadUrl(options.path),
\* without the placeholder load.
Browser_retrieveOrInitialize_ContentFirst(s, id) ==
  IF s.cur[id] # 0 /\ s.cur[id] \in s.alive[id] THEN s
  ELSE IF Created(s) >= s.maxWin THEN [s EXCEPT !.overflow = TRUE]
  ELSE LET w == s.nwin[id] + 1
       IN [s EXCEPT !.nwin[id] = w,
                    !.alive[id] = @ \cup {w},
                    !.cur[id] = w,
                    !.page[id][w] = "blank",
                    !.readyPending[id] = @ \cup {w},
                    !.mgrWin[id] = w,
                    !.interceptors[id] = @ \cup {w},
                    !.stopInterceptHandler[id] = w,
                    !.eventListenersSetup[id] = TRUE,
                    !.listeners[id] = @ \cup {w},
                    !.themeListeners = @ \cup {<<id, w>>},
                    !.themeListenerSetup[id] = TRUE,
                    !.tasks = @ \cup {Task("loadUrl", id, "url", w, Url(id, ""), FALSE, w)}]

\* Browser.retrieveOrInitialize (also the browserWindow getter): the existing
\* native window if there is one and it is not destroyed; otherwise a new
\* BrowserWindow with fresh managers, a running interceptor, the load
\* sequence begun with loadPlaceholder(), and the event listeners.
Browser_retrieveOrInitialize(s, id) ==
  IF s.cur[id] # 0 /\ s.cur[id] \in s.alive[id] THEN s
  ELSE IF Created(s) >= s.maxWin THEN [s EXCEPT !.overflow = TRUE]
  ELSE LET w == s.nwin[id] + 1
           s1 == [s EXCEPT !.nwin[id] = w,
                           !.alive[id] = @ \cup {w},
                           !.cur[id] = w,
                           !.page[id][w] = "blank",
                           !.readyPending[id] = @ \cup {w},
                           !.mgrWin[id] = w,
                           !.interceptors[id] = @ \cup {w},
                           !.stopInterceptHandler[id] = w,
                           !.placeholderStarted[id] = @ \cup {w},
                           !.tasks = @ \cup {Task("sequence", id, "placeholder", w,
                                                  Url(id, ""), FALSE, w)}]
       IN setupEventListeners(newWindowThemeManager(s1, id, w), id, w)

\* new Browser(options, app): the constructor calls retrieveOrInitialize on
\* a Browser whose fields are all unset.
NewBrowser(s, id) ==
  IF s.browserCount[id] >= MaxBrowsers THEN [s EXCEPT !.overflow = TRUE]
  ELSE Browser_retrieveOrInitialize(
         [s EXCEPT !.browserCount[id] = @ + 1,
                   !.cur[id] = 0,
                   !.mgrWin[id] = 0,
                   !.stopInterceptHandler[id] = 0,
                   !.eventListenersSetup[id] = FALSE], id)

\* ------------------------------------------------------------------ BrowserManager
\* what the getter Browser.webContents gives other than a channel
Throws == <<"throws", 0>>
Null == <<"null", 0>>

\* Browser.webContents (getter): Throws when _browserWindow is undefined
\* (undefined?.isDestroyed() is not true, and undefined.webContents is a
\* TypeError), Null when the native window is destroyed, else its channel
Browser_webContents(s, id) ==
  IF s.cur[id] = 0 THEN Throws
  ELSE IF s.cur[id] \notin s.alive[id] THEN Null
  ELSE <<id, s.cur[id]>>

\* Map.set(channel, identifier): an entry of the same channel is overwritten
mapSet(m, wc, identifier) == {e \in m : e[1] # wc} \cup {<<wc, identifier>>}

\* Faulty variant: the whole index is cleared.
mapDelete_Clears(m, wc) == {}

\* Map.delete(channel)
mapDelete(m, wc) == {e \in m : e[1] # wc}

\* BrowserManager.getIdentifierByWebContents
getIdentifierByWebContents(m, wc) ==
  IF \E e \in m : e[1] = wc THEN (CHOOSE e \in m : e[1] = wc)[2] ELSE "null"

\* the 'show' listener of setupWebContentsMapping, when native window w of
\* id is shown; a fault thrown by the listener changes nothing
mappingOnShow(s, id, w) ==
  IF w # s.mapListeners[id] \/ Browser_webContents(s, id) \in {Throws, Null} THEN s
  ELSE [s EXCEPT !.webContentsMap = mapSet(@, Browser_webContents(s, id), id)]

\* the 'close' listener of setupWebContentsMapping, on a close request on
\* native window w of id
mappingOnClose(s, id, w) ==
  IF w # s.mapListeners[id] \/ Browser_webContents(s, id) \in {Throws, Null} THEN s
  ELSE [s EXCEPT !.webContentsMap = mapDelete(@, Browser_webContents(s, id))]

\* BrowserManager.setupWebContentsMapping(browser, identifier)
setupWebContentsMapping(s, id) ==
  LET s1 == Browser_retrieveOrInitialize(s, id)
  IN IF s1.overflow THEN s1
     ELSE [s1 EXCEPT !.webContentsMap = mapSet(@, <<id, s1.cur[id]>>, id),
                     !.mapListeners[id] = s1.cur[id]]

\* Faulty variant: no lookup of the registered Browser before constructing.
BrowserManager_retrieveOrInitialize_NoLookup(s, id) ==
  LET s1 == NewBrowser(s, id)
  IN [s1 EXCEPT !.browsers[id] = s1.browserCount[id]]

\* BrowserManager.retrieveOrInitialize(options): the registered Browser, or
\* a new one, registered under its identifier.
BrowserManager_retrieveOrInitialize(s, id) ==
  IF s.browsers[id] # 0 THEN s
  ELSE LET s1 == NewBrowser(s, id)
       IN setupWebContentsMapping([s1 EXCEPT !.browsers[id] = s1.browserCount[id],
                                            !.order = Append(@, id)], id)

\* Faulty variant: an identifier the catalog does not hold gets the main window.
retrieveByIdentifier_DefaultsToMain(s, id) ==
  IF id \notin DOMAIN appBrowsers THEN BrowserManager_retrieveOrInitialize(s, "chat")
  ELSE IF s.browsers[id] # 0 THEN s
  ELSE BrowserManager_retrieveOrInitialize(s, id)

\* BrowserManager.retrieveByIdentifier.  For an identifier the catalog does
\* not hold, browsers.get gives nothing, appBrowsers[identifier] is
\* undefined and retrieveOrInitialize throws a TypeError on
\* options.identifier, before it constructs or registers anything.
retrieveByIdentifier(s, id) ==
  IF id \notin DOMAIN appBrowsers THEN [s EXCEPT !.thrown = TRUE]
  ELSE IF s.browsers[id] # 0 THEN s
  ELSE BrowserManager_retrieveOrInitialize(s, id)

\* BrowserManager.initializeBrowsers: every keepAlive entry of the catalog
\* (chat is the only one)
initializeBrowsers(s) ==
  IF appBrowsers["chat"].keepAlive THEN BrowserManager_retrieveOrInitialize(s, "chat") ELSE s

\* ------------------------------------------------------------------ show / hide
\* WindowPositionManager.determinePosition: looks the parent up through the
\* registry (constructing it when absent) and reads its browserWindow
\* (constructing the native window when there is none alive), then places
\* the window on the display nearest to the parent's.
determinePosition(s, id) ==
  LET parent == appBrowsers[id].parentIdentifier IN
  IF parent = "" THEN s
  ELSE LET s1 == Browser_retrieveOrInitialize(retrieveByIdentifier(s, parent), parent)
       IN IF s1.overflow THEN s1 ELSE [s1 EXCEPT !.positioned = @ \cup {id}]

\* BrowserWindow.show() on the live native window w: it becomes visible, and
\* when it was not, its 'show' listeners run
nativeShow(s, id, w) ==
  LET s1 == [s EXCEPT !.visible[id] = @ \cup {w}]
  IN IF w \in s.visible[id] THEN s1 ELSE mappingOnShow(s1, id, w)

\* WindowDisplayManager.showWindow on the window the manager holds
showWindow(s, id) ==
  LET w == s.mgrWin[id] IN
  IF ~NativeLive(s, id, w) THEN s
  ELSE LET s1 == Browser_retrieveOrInitialize(retrieveByIdentifier(s, "chat"), "chat")
       IN IF s1.overflow THEN s1 ELSE nativeShow(s1, id, w)

\* WindowDisplayManager.hideWindow
hideWindow(s, id) ==
  LET w == s.mgrWin[id] IN
  IF ~NativeLive(s, id, w) THEN s
  ELSE [s EXCEPT !.visible[id] = @ \ {w}]

\* Browser.show
Browser_show(s, id) ==
  LET s1 == IF ~(s.cur[id] # 0 /\ s.cur[id] \notin s.alive[id]) /\ s.mgrWin[id] # 0
            THEN determinePosition(s, id) ELSE s
  IN IF s1.mgrWin[id] # 0 THEN showWindow(s1, id)
     ELSE LET s2 == Browser_retrieveOrInitialize(s1, id)
          IN IF s2.overflow THEN s2
             ELSE nativeShow(s2, id, s2.cur[id])

\* Browser.hide
Browser_hide(s, id) ==
  IF s.mgrWin[id] # 0 THEN hideWindow(s, id)
  ELSE LET s2 == Browser_retrieveOrInitialize(s, id)
       IN IF s2.overflow THEN s2
          ELSE [s2 EXCEPT !.visible[id] = @ \ {s2.cur[id]}]

\* ------------------------------------------------------------------ ipcMain
\* ipcMain.listenerCount(key): the listeners added with ipcMain.on / once.
\* ipcMain.handle keeps its handlers in a map of their own, not among the
\* emitter's listeners, and nothing in the repository adds a listener on a
\* retry key.
listenerCount(s, id) == Cardinality({})

\* WindowErrorHandler.cleanupRetryHandler
cleanupRetryHandler(s, id) ==
  IF listenerCount(s, id) > 0 THEN [s EXCEPT !.invokeHandlers[id] = NoHandler]
  ELSE s

\* ipcMain.handle(key, fn) throws when a handler is registered under key
handleThrows(s, id) == s.invokeHandlers[id] # NoHandler

\* Faulty variant: the old handler is cleaned up but none is registered.
setupRetryHandler_NoRegister(s, id, w, url) == cleanupRetryHandler(s, id)

\* WindowErrorHandler.setupRetryHandler(originalUrl) of the handler holding
\* window w.  When ipcMain.handle throws, the registration is not made (the
\* caller's catch runs).
setupRetryHandler(s, id, w, url) ==
  LET c == cleanupRetryHandler(s, id) IN
  IF handleThrows(c, id) THEN c
  ELSE [c EXCEPT !.invokeHandlers[id] = [url |-> url, w |-> w]]

\* ------------------------------------------------------------------ close
\* Browser.cleanupResources
cleanupResources(s, id) ==
  LET s1 == [s EXCEPT !.interceptors[id] = @ \ {s.stopInterceptHandler[id]}]
      s2 == IF s1.mgrWin[id] # 0
            THEN WindowThemeManager_cleanup(cleanupRetryHandler(s1, id), id) ELSE s1
  IN [s2 EXCEPT !.eventListenersSetup[id] = FALSE]

\* Faulty variant: keepAlive is not consulted, every close goes through.
closeListener_IgnoresKeepAlive(s, id, w) ==
  [s |-> cleanupResources(s, id), prevented |-> FALSE]

\* The close listener of Browser.setupEventListeners on window w.  Gives the
\* state after the listener and whether it called preventDefault.
closeListener(s, id, w) ==
  IF s.isQuiting THEN [s |-> cleanupResources(s, id), prevented |-> FALSE]
  ELSE IF appBrowsers[id].keepAlive
       THEN [s |-> [s EXCEPT !.visible[id] = @ \ {w}], prevented |-> TRUE]
       ELSE [s |-> cleanupResources(s, id), prevented |-> FALSE]

\* A close request on native window w (BrowserWindow.close() or the user's
\* close button): the close listeners run in the order they were added
\* (Browser's, then BrowserManager's), and unless one prevented it the window
\* is destroyed.
NativeClose(s, id, w) ==
  LET r == IF w \in s.listeners[id] THEN closeListener(s, id, w)
           ELSE [s |-> s, prevented |-> FALSE]
      s1 == mappingOnClose(r.s, id, w)
  IN IF r.prevented THEN s1
     ELSE [s1 EXCEPT !.alive[id] = @ \ {w},
                      !.visible[id] = @ \ {w},
                      !.page[id][w] = "blank",
                      !.readyPending[id] = @ \ {w}]

\* Browser.close: this.browserWindow.close()
Browser_close(s, id) ==
  LET s1 == Browser_retrieveOrInitialize(s, id)
  IN IF s1.overflow THEN s1 ELSE NativeClose(s1, id, s1.cur[id])

\* ------------------------------------------------------------------ loads
\* what the caller of loadUrl does when it returns: the initial sequence
\* does nothing, redirectToPage goes on to browser.show()
loadUrlReturns(s, id, thenShow) == IF thenShow THEN Browser_show(s, id) ELSE s

\* WindowErrorHandler.loadFallbackErrorPage of the handler holding window w,
\* up to its await; a destroyed window makes loadURL throw, which is caught.
\* pc is "fallback", or "fallbackAfterFault" when error.html had loaded.
loadFallbackErrorPage(s, id, w, url, thenShow, n, pc) ==
  IF NativeLive(s, id, w)
  THEN [s EXCEPT !.tasks = @ \cup {Task("loadUrl", id, pc, w, url, thenShow, n)}]
  ELSE loadUrlReturns(s, id, thenShow)

\* Browser.handleLoadError -> WindowErrorHandler.handleLoadError of the
\* current error handler, up to its await of loadFile(error.html)
handleLoadError(s, id, url, thenShow, n) ==
  LET w == s.mgrWin[id] IN
  IF w = 0 THEN loadUrlReturns(s, id, thenShow)
  ELSE IF NativeLive(s, id, w)
       THEN [s EXCEPT !.tasks = @ \cup {Task("loadUrl", id, "errorPage", w, url, thenShow, n)}]
       ELSE loadFallbackErrorPage(s, id, w, url, thenShow, n, "fallback")

\* Browser.loadUrl(path) up to its await of this._browserWindow.loadURL
loadUrl(s, id, url, thenShow, n) ==
  LET w == s.cur[id] IN
  IF NativeLive(s, id, w)
  THEN [s EXCEPT !.tasks = @ \cup {Task("loadUrl", id, "url", w, url, thenShow, n)}]
  ELSE handleLoadError(s, id, url, thenShow, n)

\* loadPlaceholder().then(() => loadUrl(options.path)): what follows the
\* settling of the placeholder load of window t.w
afterPlaceholder(s, t, ok) ==
  IF ok
  THEN loadUrl([s EXCEPT !.page[t.id][t.w] = "splash"], t.id, t.url, FALSE, t.n)
  ELSE s

\* WindowErrorHandler.reloadErrorPage up to its await; FALSE when loadFile
\* throws at once on a destroyed window
reloadErrorPageStarts(s, t) == NativeLive(s, t.id, t.w)

\* Faulty variant: reloadErrorPage without its try/catch, so that a failed
\* loadFile(error.html) rejects.
reloadErrorPage_NoCatch(loaded) == IF loaded THEN "resolved" ELSE "rejected"

\* WindowErrorHandler.reloadErrorPage: how its promise settles, given whether
\* loadFile(error.html) loaded; the catch swallows a failed load.
reloadErrorPage(loaded) == "resolved"

\* the catch branch of the retry handler, after its await of
\* reloadErrorPage: it returns { error, success: false } when reloadErrorPage
\* resolved, and the rejection leaves the handler when it did not
retryFailed(id, loaded) ==
  [type |-> IF reloadErrorPage(loaded) = "resolved" THEN "retryReturns" ELSE "retryThrows",
   id |-> id, ok |-> FALSE]

\* the outcomes a load awaited on window w can have: a destroyed window
\* fails its pending loads
Outcomes(id, w) ==
  IF w \in alive[id] THEN {TRUE} \cup (IF failures < MaxFailures THEN {FALSE} ELSE {})
  ELSE {FALSE}

\* the state in which the continuation of task t runs after outcome ok
Settled(t, ok) ==
  [State EXCEPT !.tasks = @ \ {t},
                !.failures = IF ~ok /\ t.w \in alive[t.id] THEN @ + 1 ELSE @]

FreeSlots(kind, id, max) ==
  (1..max) \ {t.n : t \in {u \in tasks : u.kind = kind /\ u.id = id}}

RedirectSlots(id) ==
  (1..MaxRedirectInFlight) \
    {t.n : t \in {u \in tasks : u.kind = "loadUrl" /\ u.id = id /\ u.thenShow}}

\* ------------------------------------------------------------------ actions
\* BrowserManager.retrieveByIdentifier(id) called from outside
Get(id) ==
  Commit(retrieveByIdentifier(State, id), Event("get", id, TRUE))

\* BrowserManager.initializeBrowsers()
InitializeBrowsers ==
  Commit(initializeBrowsers(State), Step)

\* showMainWindow / showSettingsWindow: retrieveByIdentifier(id).show()
Show(id) ==
  Commit(Browser_show(retrieveByIdentifier(State, id), id), Step)

\* Browser.hide() of a registered window
Hide(id) ==
  /\ browsers[id] # 0
  /\ Commit(Browser_hide(State, id), Step)

\* BrowserManager.closeWindow(id): Browser.close() of a registered window
CloseWindow(id) ==
  /\ browsers[id] # 0
  /\ Commit(Browser_close(State, id), Event("close", id, TRUE))

\* the user closes native window w
CloseRequest(id, w) ==
  /\ w \in alive[id]
  /\ Commit(NativeClose(State, id, w), Event("close", id, TRUE))

\* the application's shutdown sequence sets App.isQuiting
Quit ==
  /\ ~isQuiting
  /\ Commit([State EXCEPT !.isQuiting = TRUE], Step)

\* the native window w signals ready-to-show, once: the once-listener of
\* setupEventListeners, if w carries it, calls this.show() when showOnInit
readyToShow(s, id, w) ==
  LET s1 == [s EXCEPT !.readyPending[id] = @ \ {w}]
  IN IF w \in s.listeners[id] /\ appBrowsers[id].showOnInit
     THEN Browser_show(s1, id) ELSE s1

\* ready-to-show of native window w
ReadyToShow(id, w) ==
  /\ w \in readyPending[id]
  /\ w \in alive[id]
  /\ Commit(readyToShow(State, id, w), Step)

\* BrowserManager.redirectToPage(id, subPath) up to its await of loadUrl
RedirectToPage(id, subPath) ==
  /\ RedirectSlots(id) # {}
  /\ LET n == CHOOSE k \in RedirectSlots(id) : \A j \in RedirectSlots(id) : k <= j
         s1 == Browser_hide(retrieveByIdentifier(State, id), id)
     IN Commit(loadUrl(s1, id, Url(id, subPath), TRUE, n),
               Step)

\* the placeholder load of a load sequence settles
PlaceholderSettles(t, ok) ==
  /\ t \in tasks /\ t.kind = "sequence"
  /\ ok \in Outcomes(t.id, t.w)
  /\ Commit(afterPlaceholder(Settled(t, ok), t, ok), Event("placeholderSettled", t.id, ok))

\* the loadURL awaited by Browser.loadUrl settles
UrlLoadSettles(t, ok) ==
  /\ t \in tasks /\ t.kind = "loadUrl" /\ t.pc = "url"
  /\ ok \in Outcomes(t.id, t.w)
  /\ IF ok
     THEN Commit(loadUrlReturns([Settled(t, ok) EXCEPT !.page[t.id][t.w] = "content"],
                                t.id, t.thenShow),
                 Step)
     ELSE Commit(handleLoadError(Settled(t, ok), t.id, t.url, t.thenShow, t.n),
                 Step)

\* the loadFile(error.html) awaited by handleLoadError settles
ErrorPageSettles(t, ok) ==
  /\ t \in tasks /\ t.kind = "loadUrl" /\ t.pc = "errorPage"
  /\ ok \in Outcomes(t.id, t.w)
  /\ IF ok
     THEN LET s1 == [Settled(t, ok) EXCEPT !.page[t.id][t.w] = "error"]
              s2 == setupRetryHandler(s1, t.id, t.w, t.url)
          IN IF handleThrows(cleanupRetryHandler(s1, t.id), t.id)
             THEN Commit(loadFallbackErrorPage(s2, t.id, t.w, t.url, t.thenShow, t.n,
                                               "fallbackAfterFault"),
                         Event("registrationFault", t.id, TRUE))
             ELSE Commit(loadUrlReturns(s2, t.id, t.thenShow),
                         Event("loadErrorHandled", t.id, TRUE))
     ELSE Commit(loadFallbackErrorPage(Settled(t, ok), t.id, t.w, t.url, t.thenShow, t.n,
                                       "fallback"),
                 Step)

\* Faulty variant: loadFallbackErrorPage without its try/catch, so that a
\* failed loadURL(data:...) rejects.
afterFallback_NoCatch(loaded) == IF loaded THEN "resolved" ELSE "rejected"

\* WindowErrorHandler.loadFallbackErrorPage after its await: how its promise
\* settles, and with it those of handleLoadError and of Browser.loadUrl,
\* which await it in their catch branches; its catch swallows a failed load.
afterFallback(loaded) == "resolved"

\* the loadURL(data:...) awaited by loadFallbackErrorPage settles;
\* handleLoadError and loadUrl return.  Were loadUrl to reject, its caller
\* would not go on (redirectToPage would not reach browser.show()).
FallbackSettles(t, ok) ==
  /\ t \in tasks /\ t.kind = "loadUrl" /\ t.pc \in {"fallback", "fallbackAfterFault"}
  /\ ok \in Outcomes(t.id, t.w)
  /\ LET s1 == IF ok THEN [Settled(t, ok) EXCEPT !.page[t.id][t.w] = "fallback"]
               ELSE Settled(t, ok)
         resolved == afterFallback(ok) = "resolved"
     IN Commit(IF resolved THEN loadUrlReturns(s1, t.id, t.thenShow) ELSE s1,
               Event(IF ~resolved THEN "loadUrlRejects"
                     ELSE IF t.pc = "fallback" THEN "fallbackDone"
                     ELSE "fallbackDoneAfterFault",
                     t.id, ok))

\* the error page of a window of id invokes retry-connection-<id>: the
\* registered handler runs up to its await of this.window.loadURL
InvokeRetry(id) ==
  /\ invokeHandlers[id] # NoHandler
  /\ \E w \in alive[id] : page[id][w] = "error"
  /\ FreeSlots("retry", id, MaxRetryInFlight) # {}
  /\ LET h == invokeHandlers[id]
         n == CHOOSE k \in FreeSlots("retry", id, MaxRetryInFlight) :
                \A j \in FreeSlots("retry", id, MaxRetryInFlight) : k <= j
     IN IF NativeLive(State, id, h.w)
        THEN Commit([State EXCEPT !.tasks = @ \cup {Task("retry", id, "url", h.w, h.url, FALSE, n)}],
                    Step)
        ELSE Commit(State, retryFailed(id, FALSE))

\* the loadURL awaited by the retry handler settles
RetryLoadSettles(t, ok) ==
  /\ t \in tasks /\ t.kind = "retry" /\ t.pc = "url"
  /\ ok \in Outcomes(t.id, t.w)
  /\ IF ok
     THEN Commit(cleanupRetryHandler([Settled(t, ok) EXCEPT !.page[t.id][t.w] = "content"], t.id),
                 Event("retryReturns", t.id, TRUE))
     ELSE IF reloadErrorPageStarts(Settled(t, ok), t)
          THEN Commit([Settled(t, ok) EXCEPT !.tasks = @ \cup {[t EXCEPT !.pc = "errorPage"]}],
                      Step)
          ELSE Commit(Settled(t, ok), retryFailed(t.id, FALSE))

\* the loadFile(error.html) awaited by reloadErrorPage settles; the handler's
\* catch branch completes
RetryErrorPageSettles(t, ok) ==
  /\ t \in tasks /\ t.kind = "retry" /\ t.pc = "errorPage"
  /\ ok \in Outcomes(t.id, t.w)
  /\ Commit(IF ok THEN [Settled(t, ok) EXCEPT !.page[t.id][t.w] = "error"] ELSE Settled(t, ok),
            retryFailed(t.id, ok))

Next ==
  \/ \E id \in AppBrowsersIdentifiers : Get(id)
  \/ InitializeBrowsers
  \/ \E id \in AppBrowsersIdentifiers : Show(id)
  \/ \E id \in AppBrowsersIdentifiers : Hide(id)
  \/ \E id \in AppBrowsersIdentifiers : CloseWindow(id)
  \/ \E id \in AppBrowsersIdentifiers : \E w \in Wins : CloseRequest(id, w)
  \/ Quit
  \/ \E id \in AppBrowsersIdentifiers : \E w \in Wins : ReadyToShow(id, w)
  \/ \E id \in AppBrowsersIdentifiers : \E subPath \in SubPaths : RedirectToPage(id, subPath)
  \/ \E t \in tasks : \E ok \in BOOLEAN : PlaceholderSettles(t, ok)
  \/ \E t \in tasks : \E ok \in BOOLEAN : UrlLoadSettles(t, ok)
  \/ \E t \in tasks : \E ok \in BOOLEAN : ErrorPageSettles(t, ok)
  \/ \E t \in tasks : \E ok \in BOOLEAN : FallbackSettles(t, ok)
  \/ \E id \in AppBrowsersIdentifiers : InvokeRetry(id)
  \/ \E t \in tasks : \E ok \in BOOLEAN : RetryLoadSettles(t, ok)
  \/ \E t \in tasks : \E ok \in BOOLEAN : RetryErrorPageSettles(t, ok)

Spec == Init /\ [][Next]_vars

\* ------------------------------------------------------------------ broadcast, destroy
\* Browser.destroy: cleanupResources, then _browserWindow = undefined; the
\* native window is not closed
Browser_destroy(s, id) == [cleanupResources(s, id) EXCEPT !.cur[id] = 0]

\* Browser.broadcast: returns when the native window is destroyed; with
\* _browserWindow undefined the guard undefined?.isDestroyed() is not true
\* and undefined.webContents throws a TypeError; otherwise sends on the
\* channel of the native window
Browser_broadcast(s, id) ==
  IF s.cur[id] # 0 /\ s.cur[id] \notin s.alive[id] THEN s
  ELSE IF s.cur[id] = 0 THEN [s EXCEPT !.thrown = TRUE]
  ELSE [s EXCEPT !.delivered = Append(@, <<id, s.cur[id]>>)]

\* this.browsers.forEach((browser) => browser.broadcast(...)) over the
\* keys ids in order: a fault thrown by a callback ends the forEach
RECURSIVE forEachBroadcast(_, _)
forEachBroadcast(s, ids) ==
  IF ids = <<>> \/ s.thrown THEN s
  ELSE forEachBroadcast(Browser_broadcast(s, Head(ids)), Tail(ids))

\* BrowserManager.broadcastToAllWindows
broadcastToAllWindows(s) == forEachBroadcast(s, s.order)

\* Faulty variant: the identifier is not used to pick the window.
broadcastToWindow_ToAll(s, id) == broadcastToAllWindows(s)

\* BrowserManager.broadcastToWindow
broadcastToWindow(s, id) ==
  IF s.browsers[id] = 0 THEN s ELSE Browser_broadcast(s, id)

\* BrowserManager.isWindowValid: reads browser.browserWindow, which creates
\* a native window when the Browser has none that is alive
isWindowValid(s, id) ==
  IF s.browsers[id] = 0 THEN s ELSE Browser_retrieveOrInitialize(s, id)

\* BrowserManager.retrieveByIdentifier(id) called from outside
RegGet(id) ==
  RegistryCommit(retrieveByIdentifier(RegistryState, id), "get", id)

\* showMainWindow / showSettingsWindow: retrieveByIdentifier(id).show()
RegShow(id) ==
  RegistryCommit(Browser_show(retrieveByIdentifier(RegistryState, id), id), "show", id)

\* Browser.hide() of a registered window
RegHide(id) ==
  /\ browsers[id] # 0
  /\ RegistryCommit(Browser_hide(RegistryState, id), "hide", id)

\* BrowserManager.closeWindow(id)
RegCloseWindow(id) ==
  /\ browsers[id] # 0
  /\ RegistryCommit(Browser_close(RegistryState, id), "close", id)

\* the user closes native window w
RegCloseRequest(id, w) ==
  /\ w \in alive[id]
  /\ RegistryCommit(NativeClose(RegistryState, id, w), "closeRequest", id)

\* the application's shutdown sequence sets App.isQuiting
RegQuit ==
  /\ ~isQuiting
  /\ RegistryCommit([RegistryState EXCEPT !.isQuiting = TRUE], "step", "")

\* ready-to-show of native window w
RegReadyToShow(id, w) ==
  /\ w \in readyPending[id]
  /\ w \in alive[id]
  /\ RegistryCommit(readyToShow(RegistryState, id, w), "readyToShow", id)

\* Browser.destroy() of a registered window
Destroy(id) ==
  /\ browsers[id] # 0
  /\ RegistryCommit(Browser_destroy(RegistryState, id), "destroy", id)

\* BrowserManager.isWindowValid(id)
IsWindowValid(id) ==
  RegistryCommit(isWindowValid(RegistryState, id), "isWindowValid", id)

\* BrowserManager.broadcastToWindow(id, event, data)
BroadcastToWindow(id) ==
  RegistryCommit(broadcastToWindow(RegistryState, id), "broadcastToWindow", id)

\* BrowserManager.broadcastToAllWindows(event, data)
BroadcastToAllWindows ==
  RegistryCommit(broadcastToAllWindows(RegistryState), "broadcastToAllWindows", "")

RegistryNext ==
  \/ \E id \in AppBrowsersIdentifiers \cup UnknownIdentifiers : RegGet(id)
  \/ \E id \in AppBrowsersIdentifiers : RegShow(id)
  \/ \E id \in AppBrowsersIdentifiers : RegHide(id)
  \/ \E id \in AppBrowsersIdentifiers : RegCloseWindow(id)
  \/ \E id \in AppBrowsersIdentifiers : \E w \in Wins : RegCloseRequest(id, w)
  \/ \E id \in AppBrowsersIdentifiers : \E w \in Wins : RegReadyToShow(id, w)
  \/ RegQuit
  \/ \E id \in AppBrowsersIdentifiers : Destroy(id)
  \/ \E id \in AppBrowsersIdentifiers : IsWindowValid(id)
  \/ \E id \in AppBrowsersIdentifiers : BroadcastToWindow(id)
  \/ BroadcastToAllWindows

RegistrySpec == Init /\ [][RegistryNext]_vars

\* ------------------------------------------------------------------ several windows, their loads and the index
\* The loads and retries of the windows next to the registry and its index
\* of channels.  The loads are those of the load sequences; none of their
\* continuations shows or closes a window, so they leave the registry and
\* the index as they are.  At most MaxWin windows are made and at most
\* MaxTasks loads are pending at a time.
ContainCommit(s, type, id) ==
  /\ Cardinality(s.tasks) <= MaxTasks
  /\ RegistryCommit(s, type, id)

ContainNext ==
  \/ \E id \in AppBrowsersIdentifiers :
       ContainCommit(retrieveByIdentifier(State, id), "get", id)
  \/ \E id \in AppBrowsersIdentifiers :
       ContainCommit(Browser_show(retrieveByIdentifier(State, id), id), "show", id)
  \/ \E id \in AppBrowsersIdentifiers :
       browsers[id] # 0 /\ ContainCommit(Browser_close(State, id), "close", id)
  \/ \E t \in tasks : \E ok \in BOOLEAN : PlaceholderSettles(t, ok)
  \/ \E t \in tasks : \E ok \in BOOLEAN : UrlLoadSettles(t, ok)
  \/ \E t \in tasks : \E ok \in BOOLEAN : ErrorPageSettles(t, ok)
  \/ \E t \in tasks : \E ok \in BOOLEAN : FallbackSettles(t, ok)
  \/ \E id \in AppBrowsersIdentifiers : InvokeRetry(id)
  \/ \E t \in tasks : \E ok \in BOOLEAN : RetryLoadSettles(t, ok)
  \/ \E t \in tasks : \E ok \in BOOLEAN : RetryErrorPageSettles(t, ok)

ContainSpec == Init /\ [][ContainNext]_vars

\* ------------------------------------------------------------------ loads across a replaced handle
\* Browser.destroy() of a registered window, while its loads are pending
DestroyBrowser(id) ==
  /\ browsers[id] # 0
  /\ cur[id] # 0
  /\ Commit(Browser_destroy(State, id), Event("destroy", id, TRUE))

\* a read of the getter Browser.browserWindow of a registered window (as in
\* BrowserManager.minimizeWindow, maximizeWindow, isWindowValid)
GetBrowserWindow(id) ==
  /\ browsers[id] # 0
  /\ Commit(Browser_retrieveOrInitialize(State, id), Event("browserWindow", id, TRUE))

StaleNext ==
  \/ \E id \in AppBrowsersIdentifiers : Get(id)
  \/ \E id \in AppBrowsersIdentifiers : CloseWindow(id)
  \/ \E id \in AppBrowsersIdentifiers : DestroyBrowser(id)
  \/ \E id \in AppBrowsersIdentifiers : GetBrowserWindow(id)
  \/ \E t \in tasks : \E ok \in BOOLEAN : PlaceholderSettles(t, ok)
  \/ \E t \in tasks : \E ok \in BOOLEAN : UrlLoadSettles(t, ok)
  \/ \E t \in tasks : \E ok \in BOOLEAN : ErrorPageSettles(t, ok)
  \/ \E t \in tasks : \E ok \in BOOLEAN : FallbackSettles(t, ok)

StaleSpec == Init /\ [][StaleNext]_vars

\* ------------------------------------------------------------------ geometry: steps
\* Browser.retrieveOrInitialize constructs the native window of id
GeoConstruct(id, pos) ==
  /\ ~geometry[id].open
  /\ constructed < MaxGeometryWin
  /\ LET keeper == initializeWindowStateKeeper(stateFiles, id)
     IN geometry' = [geometry EXCEPT
                       ![id] = newBrowserWindow(build(id, keeper), pos, keeper.isMaximized)]
  /\ constructed' = constructed + 1
  /\ ev' = [type |-> "construct", id |-> id, ok |-> TRUE]
  /\ UNCHANGED <<stateFiles, savedBy, workArea, windowVars, crashVars, registryVars, displayVars>>

\* ready-to-show of a window whose record was maximized: browserWindow.maximize()
GeoReadyToShow(id) ==
  /\ geometry[id].open
  /\ geometry[id].restore
  /\ geometry' = [geometry EXCEPT ![id].isMaximized = TRUE, ![id].restore = FALSE]
  /\ ev' = [type |-> "readyToShow", id |-> id, ok |-> TRUE]
  /\ UNCHANGED <<stateFiles, constructed, savedBy, workArea, windowVars, crashVars, registryVars, displayVars>>

\* the user moves and resizes the window of id
GeoUserSetsBounds(id, b) ==
  /\ geometry[id].open
  /\ ~geometry[id].isMaximized
  /\ geometry' = [geometry EXCEPT ![id].x = b.x, ![id].y = b.y,
                                  ![id].width = b.width, ![id].height = b.height]
  /\ ev' = [type |-> "userBounds", id |-> id, ok |-> TRUE]
  /\ UNCHANGED <<stateFiles, constructed, savedBy, workArea, windowVars, crashVars, registryVars, displayVars>>

\* the user maximizes or restores the window of id
GeoUserMaximizes(id) ==
  /\ geometry[id].open
  /\ appBrowsersSize[id].maximizable
  /\ geometry' = [geometry EXCEPT ![id].isMaximized = ~@]
  /\ ev' = [type |-> "userMaximize", id |-> id, ok |-> TRUE]
  /\ UNCHANGED <<stateFiles, constructed, savedBy, workArea, windowVars, crashVars, registryVars, displayVars>>

\* the window of id closes: the state keeper that manages it persists its
\* bounds into the keeper's file
GeoClosed(id) ==
  /\ geometry[id].open
  /\ LET g == geometry[id]
         rec == GeometryRecord(g.x, g.y, g.width, g.height, g.isMaximized)
     IN /\ stateFiles' = [stateFiles EXCEPT ![stateFile(id)] = rec]
        /\ savedBy' = [savedBy EXCEPT ![id] = rec]
  /\ geometry' = [geometry EXCEPT ![id] = NoWindow]
  /\ ev' = [type |-> "closed", id |-> id, ok |-> TRUE]
  /\ UNCHANGED <<constructed, workArea, windowVars, crashVars, registryVars, displayVars>>

\* Browser.centerOnDisplay() of an open window, display being the display
\* screen.getDisplayMatching gives for its bounds
GeoCenterOnDisplay(id, display) ==
  /\ geometry[id].open
  /\ geometry' = [geometry EXCEPT ![id] = centerOnDisplay(@, display)]
  /\ workArea' = display
  /\ ev' = [type |-> "centerOnDisplay", id |-> id, ok |-> TRUE]
  /\ UNCHANGED <<stateFiles, constructed, savedBy, windowVars, crashVars, registryVars, displayVars>>

\* determinePosition of an open child window, display being the display
\* nearest to its parent's window
GeoDeterminePosition(id, display) ==
  /\ geometry[id].open
  /\ appBrowsers[id].parentIdentifier # ""
  /\ geometry' = [geometry EXCEPT ![id] = positionWindowOnDisplay(@, display)]
  /\ workArea' = display
  /\ ev' = [type |-> "determinePosition", id |-> id, ok |-> TRUE]
  /\ UNCHANGED <<stateFiles, constructed, savedBy, windowVars, crashVars, registryVars, displayVars>>

\* the windows being positioned: constructed, moved and resized by the
\* user, centered, placed on the parent's display
PositionNext ==
  \/ \E id \in AppBrowsersIdentifiers : \E pos \in PlatformPositions : GeoConstruct(id, pos)
  \/ \E id \in AppBrowsersIdentifiers : \E b \in UserBounds : GeoUserSetsBounds(id, b)
  \/ \E id \in AppBrowsersIdentifiers : \E d \in Displays : GeoCenterOnDisplay(id, d)
  \/ \E id \in AppBrowsersIdentifiers : \E d \in Displays : GeoDeterminePosition(id, d)

PositionSpec == Init /\ [][PositionNext]_vars

GeometryNext ==
  \/ \E id \in AppBrowsersIdentifiers : \E pos \in PlatformPositions : GeoConstruct(id, pos)
  \/ \E id \in AppBrowsersIdentifiers : GeoReadyToShow(id)
  \/ \E id \in AppBrowsersIdentifiers : \E b \in UserBounds : GeoUserSetsBounds(id, b)
  \/ \E id \in AppBrowsersIdentifiers : GeoUserMaximizes(id)
  \/ \E id \in AppBrowsersIdentifiers : GeoClosed(id)

GeometrySpec == Init /\ [][GeometryNext]_vars

\* ------------------------------------------------------------------ display
\* The display state as one record, for the operators that model the
\* synchronous code of WindowDisplayManager.
Display ==
  [platform |-> platform, native |-> native, wasMainWindowFocused |-> wasMainWindowFocused,
   dockHidden |-> dockHidden, calls |-> <<>>]

\* isMac, isLinux of const/env
isMac(d) == d.platform = "darwin"
isLinux(d) == d.platform = "linux"

\* a call made on the native window of id
Call(d, id, c) == [d EXCEPT !.calls = Append(@, <<id, c>>)]

\* a native window just constructed (show: false)
NewNative == [NoNative EXCEPT !.live = TRUE]

\* BrowserWindow.show()
BrowserWindow_show(d, id) ==
  Call([d EXCEPT !.native[id].visible = TRUE], id, "show")

\* BrowserWindow.focus(): a visible, not minimized window takes the focus
\* from the others
BrowserWindow_focus(d, id) ==
  Call(IF d.native[id].visible /\ ~d.native[id].minimized
       THEN [d EXCEPT !.native = [i \in DOMAIN @ |-> [@[i] EXCEPT !.focused = (i = id)]]]
       ELSE d,
       id, "focus")

\* BrowserWindow.hide()
BrowserWindow_hide(d, id) ==
  Call([d EXCEPT !.native[id].visible = FALSE, !.native[id].focused = FALSE], id, "hide")

\* BrowserWindow.minimize()
BrowserWindow_minimize(d, id) ==
  Call([d EXCEPT !.native[id].minimized = TRUE, !.native[id].focused = FALSE], id, "minimize")

\* BrowserWindow.restore(): back from the minimized state, displayed
BrowserWindow_restore(d, id) ==
  Call([d EXCEPT !.native[id].minimized = FALSE, !.native[id].visible = TRUE], id, "restore")

\* BrowserWindow.setFullScreen(flag)
BrowserWindow_setFullScreen(d, id, flag) ==
  Call([d EXCEPT !.native[id].fullscreen = flag], id,
       IF flag THEN "setFullScreen(true)" ELSE "setFullScreen(false)")

\* BrowserWindow.setVisibleOnAllWorkspaces(flag)
BrowserWindow_setVisibleOnAllWorkspaces(d, id, flag) ==
  Call([d EXCEPT !.native[id].visibleOnAllWorkspaces = flag], id,
       IF flag THEN "setVisibleOnAllWorkspaces(true)" ELSE "setVisibleOnAllWorkspaces(false)")

\* BrowserWindow.moveTop()
BrowserWindow_moveTop(d, id) == Call(d, id, "moveTop")

\* app.hide() (macOS): the application and with it every window loses the focus
app_hide(d) ==
  Call([d EXCEPT !.native = [i \in DOMAIN @ |-> [@[i] EXCEPT !.focused = FALSE]]],
       "app", "hide")

\* app.focus({ steal: true })
app_focus(d) == Call(d, "app", "focus")

\* someBrowser.browserWindow: the getter constructs the native window when
\* there is none that is alive
Display_browserWindow(d, id) ==
  IF d.native[id].live THEN d ELSE [d EXCEPT !.native[id] = NewNative]

\* Faulty variant: a minimized window is restored and the show logic runs on.
Display_showWindow_NoReturn(d, id) ==
  IF ~d.native[id].live THEN d
  ELSE
    LET d0 == Display_browserWindow(d, "chat")
        d1 == [d0 EXCEPT !.wasMainWindowFocused[id] = d0.native["chat"].focused]
        d2 == IF d1.native[id].minimized THEN BrowserWindow_restore(d1, id) ELSE d1
    IN BrowserWindow_focus(BrowserWindow_show(d2, id), id)

\* Faulty variant: the visible-on-all-workspaces flag is not cleared.
Display_showWindow_NoReset(d, id) ==
  IF ~d.native[id].live THEN d
  ELSE
    LET d0 == Display_browserWindow(d, "chat")
        d1 == [d0 EXCEPT !.wasMainWindowFocused[id] = d0.native["chat"].focused]
    IN IF d1.native[id].minimized THEN BrowserWindow_restore(d1, id)
       ELSE
         LET d2 == IF ~isLinux(d1) THEN BrowserWindow_setVisibleOnAllWorkspaces(d1, id, TRUE)
                   ELSE d1
             d3 == IF isMac(d2) /\ d2.native[id].fullscreen /\ ~d2.native[id].visible
                   THEN BrowserWindow_setFullScreen(d2, id, FALSE) ELSE d2
         IN BrowserWindow_focus(BrowserWindow_show(d3, id), id)

\* WindowDisplayManager.showWindow
Display_showWindow(d, id) ==
  IF ~d.native[id].live THEN d
  ELSE
    LET d0 == Display_browserWindow(d, "chat")
        d1 == [d0 EXCEPT !.wasMainWindowFocused[id] = d0.native["chat"].focused]
    IN IF d1.native[id].minimized THEN BrowserWindow_restore(d1, id)
       ELSE
         LET d2 == IF ~isLinux(d1) THEN BrowserWindow_setVisibleOnAllWorkspaces(d1, id, TRUE)
                   ELSE d1
             d3 == IF isMac(d2) /\ d2.native[id].fullscreen /\ ~d2.native[id].visible
                   THEN BrowserWindow_setFullScreen(d2, id, FALSE) ELSE d2
             d4 == BrowserWindow_focus(BrowserWindow_show(d3, id), id)
         IN IF ~isLinux(d4) THEN BrowserWindow_setVisibleOnAllWorkspaces(d4, id, FALSE)
            ELSE d4

\* WindowDisplayManager.hideWindow
Display_hideWindow(d, id) ==
  IF ~d.native[id].live THEN d
  ELSE IF isMac(d)
       THEN LET d1 == BrowserWindow_hide(d, id)
            IN IF ~d1.wasMainWindowFocused[id] THEN app_hide(d1) ELSE d1
       ELSE IF d.platform = "win32"
            THEN BrowserWindow_hide(BrowserWindow_minimize(d, id), id)
            ELSE BrowserWindow_hide(d, id)

\* Faulty variant: a visible window is hidden whether focused or not.
toggleWindow_HidesUnfocused(d, id) ==
  IF ~d.native[id].live THEN d
  ELSE IF d.native[id].fullscreen /\ d.native[id].visible THEN d
  ELSE IF d.native[id].visible THEN Display_hideWindow(d, id)
  ELSE Display_showWindow(d, id)

\* WindowDisplayManager.toggleWindow
toggleWindow(d, id) ==
  IF ~d.native[id].live THEN d
  ELSE IF d.native[id].fullscreen /\ d.native[id].visible THEN d
  ELSE IF d.native[id].visible
       THEN IF d.native[id].focused THEN Display_hideWindow(d, id)
            ELSE BrowserWindow_focus(d, id)
       ELSE Display_showWindow(d, id)

\* WindowDisplayManager.bringToFront
bringToFront(d, id) ==
  IF ~d.native[id].live THEN d
  ELSE IF ~d.native[id].visible THEN Display_showWindow(d, id)
  ELSE IF isMac(d) THEN BrowserWindow_moveTop(app_focus(d), id)
  ELSE BrowserWindow_moveTop(BrowserWindow_focus(d, id), id)

\* WindowDisplayManager.handleActivation
handleActivation(d, id) ==
  IF ~d.native[id].live THEN d
  ELSE IF id = "chat" THEN Display_showWindow(d, id) ELSE d

\* Faulty variant: the other windows are not looked at (the earlier
\* Browser.shouldHideDock).
shouldHideDock_Always(d, id) == isMac(d)

\* WindowDisplayManager.shouldHideDock: BrowserWindow.getAllWindows() are
\* the native windows alive
shouldHideDock(d, id) ==
  IF ~isMac(d) THEN FALSE
  ELSE {i \in DOMAIN d.native : d.native[i].live /\ d.native[i].visible /\ i # id} = {}

\* Browser.show, on a Browser that holds a native window: the parent is
\* looked up and its browserWindow read, the dock shown on macOS, then
\* displayManager.showWindow()
Display_Browser_show(d, id) ==
  LET parent == appBrowsers[id].parentIdentifier
      d1 == IF d.native[id].live
            THEN LET d0 == IF parent = "" THEN d ELSE Display_browserWindow(d, parent)
                 IN IF isMac(d0) THEN [d0 EXCEPT !.dockHidden = FALSE] ELSE d0
            ELSE d
  IN Display_showWindow(d1, id)

\* the close listener of Browser.setupEventListeners while the application
\* is not quitting, and what the window system does after it
Display_close(d, id) ==
  IF appBrowsers[id].keepAlive
  THEN LET d1 == BrowserWindow_hide(d, id)
       IN IF shouldHideDock(d1, id) THEN [d1 EXCEPT !.dockHidden = TRUE] ELSE d1
  ELSE [d EXCEPT !.native[id] = NoNative]

\* A step of DisplaySpec.
DisplayCommit(d, type, id) ==
  /\ platform' = d.platform
  /\ native' = d.native
  /\ wasMainWindowFocused' = d.wasMainWindowFocused
  /\ dockHidden' = d.dockHidden
  /\ calls' = d.calls
  /\ ev' = [type |-> type, id |-> id, ok |-> TRUE]
  /\ UNCHANGED <<windowVars, crashVars, registryVars, geometryVars>>

\* the Browser of id is constructed, and its native window with it
DisplayOpen(id) ==
  /\ ~native[id].live
  /\ DisplayCommit(Display_browserWindow(Display, id), "open", id)

\* Browser.show()
DisplayShow(id) ==
  /\ native[id].live
  /\ DisplayCommit(Display_Browser_show(Display, id), "show", id)

\* Browser.hide()
DisplayHide(id) ==
  /\ native[id].live
  /\ DisplayCommit(Display_hideWindow(Display, id), "hide", id)

\* Browser.toggleVisible()
DisplayToggle(id) ==
  /\ native[id].live
  /\ DisplayCommit(toggleWindow(Display, id), "toggle", id)

\* Browser.bringToFront()
DisplayBringToFront(id) ==
  /\ native[id].live
  /\ DisplayCommit(bringToFront(Display, id), "bringToFront", id)

\* Browser.handleActivation()
DisplayHandleActivation(id) ==
  /\ native[id].live
  /\ DisplayCommit(handleActivation(Display, id), "handleActivation", id)

\* the user closes the window of id
DisplayClose(id) ==
  /\ native[id].live
  /\ DisplayCommit(Display_close(Display, id), "close", id)

\* the user clicks into the visible window of id
UserFocuses(id) ==
  /\ native[id].live /\ native[id].visible /\ ~native[id].minimized /\ ~native[id].focused
  /\ DisplayCommit([Display EXCEPT
                      !.native = [i \in DOMAIN @ |-> [@[i] EXCEPT !.focused = (i = id)]]],
                   "userFocus", id)

\* the user turns to another application
UserLeaves ==
  /\ \E id \in AppBrowsersIdentifiers : native[id].focused
  /\ DisplayCommit([Display EXCEPT
                      !.native = [i \in DOMAIN @ |-> [@[i] EXCEPT !.focused = FALSE]]],
                   "userLeaves", "")

\* the user minimizes the visible window of id
UserMinimizes(id) ==
  /\ native[id].live /\ native[id].visible /\ ~native[id].minimized
  /\ DisplayCommit([Display EXCEPT !.native[id].minimized = TRUE,
                                   !.native[id].focused = FALSE],
                   "userMinimize", id)

\* the user enters or leaves fullscreen in the visible window of id
UserFullScreen(id) ==
  /\ native[id].live /\ native[id].visible /\ ~native[id].minimized
  /\ DisplayCommit([Display EXCEPT !.native[id].fullscreen = ~@], "userFullScreen", id)

DisplayNext ==
  \/ \E id \in AppBrowsersIdentifiers : DisplayOpen(id)
  \/ \E id \in AppBrowsersIdentifiers : DisplayShow(id)
  \/ \E id \in AppBrowsersIdentifiers : DisplayHide(id)
  \/ \E id \in AppBrowsersIdentifiers : DisplayToggle(id)
  \/ \E id \in AppBrowsersIdentifiers : DisplayBringToFront(id)
  \/ \E id \in AppBrowsersIdentifiers : DisplayHandleActivation(id)
  \/ \E id \in AppBrowsersIdentifiers : DisplayClose(id)
  \/ \E id \in AppBrowsersIdentifiers : UserFocuses(id)
  \/ UserLeaves
  \/ \E id \in AppBrowsersIdentifiers : UserMinimizes(id)
  \/ \E id \in AppBrowsersIdentifiers : UserFullScreen(id)

DisplaySpec == DisplayInit /\ [][DisplayNext]_vars

\* ------------------------------------------------------------------ renderer crashes
\* Faulty variant: one crash time for the whole process.
lastCrashTimeOf_ProcessWide(last, id) ==
  CHOOSE t \in {last[i] : i \in AppBrowsersIdentifiers} :
    \A i \in AppBrowsersIdentifiers : last[i] <= t

\* this.lastRendererProcessCrashTime, read by the manager of id's window:
\* a field of the WindowLifecycleManager instance
lastCrashTimeOf(last, id) == last[id]

\* Faulty variant: a crash exactly 60 s after the previous one recovers.
shouldRecover_AtLeast(currentTime, lastCrashTime) == currentTime - lastCrashTime >= 60 * 1000

\* currentTime - lastCrashTime > 60 * 1000
shouldRecover(currentTime, lastCrashTime) == currentTime - lastCrashTime > 60 * 1000

\* time passes
ClockTick ==
  /\ exitCode = 0
  /\ now < StartTime + MaxTicks * Tick
  /\ now' = now + Tick
  /\ ev' = Step
  /\ UNCHANGED <<lastRendererProcessCrashTime, exitCode, crashTimes, zoomVars, windowVars,
                 registryVars, geometryVars, displayVars>>

\* 'render-process-gone' on the webContents of id's native window: the
\* listener of setupRenderProcessMonitoring
RenderProcessGone(id) ==
  /\ exitCode = 0
  /\ LET currentTime == now
         lastCrashTime == lastCrashTimeOf(lastRendererProcessCrashTime, id)
     IN /\ lastRendererProcessCrashTime' = [lastRendererProcessCrashTime EXCEPT ![id] = currentTime]
        /\ IF shouldRecover(currentTime, lastCrashTime)
           THEN /\ ev' = Event("reload", id, TRUE)
                /\ exitCode' = exitCode
           ELSE /\ ev' = Event("exit", id, TRUE)
                /\ exitCode' = 1
  /\ crashTimes' = [crashTimes EXCEPT ![id] = <<now>> \o SubSeq(@, 1, IF @ = <<>> THEN 0 ELSE 1)]
  /\ UNCHANGED <<now, zoomVars, windowVars, registryVars, geometryVars, displayVars>>

\* Browser.initializeAllManagers for a new native window of id: a new
\* WindowLifecycleManager, whose lastRendererProcessCrashTime is 0; the new
\* native window has had no crash
NewLifecycleManager(id) ==
  /\ exitCode = 0
  /\ lastRendererProcessCrashTime' = [lastRendererProcessCrashTime EXCEPT ![id] = 0]
  /\ crashTimes' = [crashTimes EXCEPT ![id] = <<>>]
  /\ ev' = Step
  /\ UNCHANGED <<now, exitCode, zoomVars, windowVars, registryVars, geometryVars, displayVars>>

CrashNext ==
  \/ ClockTick
  \/ \E id \in AppBrowsersIdentifiers : RenderProcessGone(id)
  \/ \E id \in AppBrowsersIdentifiers : NewLifecycleManager(id)

CrashSpec == Init /\ [][CrashNext]_vars

\* ------------------------------------------------------------------ zoom factor
\* a step of ZoomSpec
ZoomCommit(store, windows, lastSet, type, id) ==
  /\ zoomStore' = store
  /\ zoomWindow' = windows
  /\ zoomLastSet' = lastSet
  /\ ev' = Event(type, id, TRUE)
  /\ UNCHANGED <<now, lastRendererProcessCrashTime, exitCode, crashTimes, windowVars,
                 registryVars, geometryVars, displayVars>>

\* the listeners of setupZoomFactorHandling (ready-to-show, will-resize,
\* restore, resize on Linux): the window gets the factor in the store
reapplyZoomFactor(store, win) == [win EXCEPT !.factor = store]

\* a native window of id is constructed with a new WindowLifecycleManager
ZoomNewWindow(id) ==
  /\ ~zoomWindow[id].live
  /\ ZoomCommit(zoomStore,
                [zoomWindow EXCEPT ![id] = [live |-> TRUE, pending |-> TRUE,
                                            factor |-> DefaultZoomFactor]],
                [zoomLastSet EXCEPT ![id] = 0], "newWindow", id)

\* ready-to-show of id's native window (once)
ZoomReadyToShow(id) ==
  /\ zoomWindow[id].live /\ zoomWindow[id].pending
  /\ ZoomCommit(zoomStore,
                [zoomWindow EXCEPT ![id] = [reapplyZoomFactor(zoomStore, @) EXCEPT !.pending = FALSE]],
                zoomLastSet, "readyToShow", id)

\* will-resize (resize on Linux) of id's native window
ZoomResize(id) ==
  /\ zoomWindow[id].live
  /\ ZoomCommit(zoomStore, [zoomWindow EXCEPT ![id] = reapplyZoomFactor(zoomStore, @)],
                zoomLastSet, "resize", id)

\* restore of id's native window
ZoomRestore(id) ==
  /\ zoomWindow[id].live
  /\ ZoomCommit(zoomStore, [zoomWindow EXCEPT ![id] = reapplyZoomFactor(zoomStore, @)],
                zoomLastSet, "restore", id)

\* WindowLifecycleManager.setZoomFactor(factor) of id's manager
SetZoomFactor(id, factor) ==
  IF zoomWindow[id].live
  THEN ZoomCommit(factor, [zoomWindow EXCEPT ![id].factor = factor],
                  [zoomLastSet EXCEPT ![id] = factor], "setZoomFactor", id)
  ELSE ZoomCommit(zoomStore, zoomWindow, zoomLastSet, "setZoomFactor", id)

\* id's native window is destroyed
ZoomClosed(id) ==
  /\ zoomWindow[id].live
  /\ ZoomCommit(zoomStore, [zoomWindow EXCEPT ![id].live = FALSE, ![id].pending = FALSE],
                zoomLastSet, "closed", id)

ZoomNext ==
  \/ \E id \in AppBrowsersIdentifiers : ZoomNewWindow(id)
  \/ \E id \in AppBrowsersIdentifiers : ZoomReadyToShow(id)
  \/ \E id \in AppBrowsersIdentifiers : ZoomResize(id)
  \/ \E id \in AppBrowsersIdentifiers : ZoomRestore(id)
  \/ \E id \in AppBrowsersIdentifiers : \E factor \in ZoomFactors : SetZoomFactor(id, factor)
  \/ \E id \in AppBrowsersIdentifiers : ZoomClosed(id)

ZoomSpec == Init /\ [][ZoomNext]_vars

\* ------------------------------------------------------------------ load failures and the process
\* The loads of the windows next to the renderer crashes, the one place
\* that calls app.exit.  No window is closed twice and none is constructed
\* anew, so each identifier keeps the WindowLifecycleManager of its one
\* native window; nothing happens once the process has exited.
FailureNext ==
  \/ \E id \in AppBrowsersIdentifiers : exitCode = 0 /\ Get(id)
  \/ \E id \in AppBrowsersIdentifiers : exitCode = 0 /\ cur[id] \in alive[id] /\ CloseWindow(id)
  \/ \E id \in AppBrowsersIdentifiers : \E subPath \in SubPaths :
       exitCode = 0 /\ RedirectToPage(id, subPath)
  \/ \E t \in tasks : \E ok \in BOOLEAN : exitCode = 0 /\ PlaceholderSettles(t, ok)
  \/ \E t \in tasks : \E ok \in BOOLEAN : exitCode = 0 /\ UrlLoadSettles(t, ok)
  \/ \E t \in tasks : \E ok \in BOOLEAN : exitCode = 0 /\ ErrorPageSettles(t, ok)
  \/ \E t \in tasks : \E ok \in BOOLEAN : exitCode = 0 /\ FallbackSettles(t, ok)
  \/ \E id \in AppBrowsersIdentifiers : cur[id] \in alive[id] /\ RenderProcessGone(id)

FailureSpec == Init /\ [][FailureNext]_vars

\* ------------------------------------------------------------------ properties
\* a content load begun by a load sequence (not by redirectToPage) of id
\* is in progress
InitialContentLoad(id) ==
  \E t \in tasks : t.kind = "loadUrl" /\ t.id = id /\ ~t.thenShow

RetriesInFlight(id) == {t \in tasks : t.kind = "retry" /\ t.id = id}

\* The lifecycle phase of native window w of id, read off what the window
\* displays and the loads in flight on it.  A window whose placeholder load
\* failed stays in PlaceholderLoading.
phase(id, w) ==
  IF w > nwin[id] THEN "Uninitialized"
  ELSE IF w \notin alive[id] THEN "Destroyed"
  ELSE IF \E t \in tasks : t.id = id /\ t.w = w /\ t.kind = "sequence" THEN "PlaceholderLoading"
  ELSE IF \E t \in tasks : t.id = id /\ t.w = w /\ t.pc = "url" THEN "ContentLoading"
  ELSE IF page[id][w] = "content" THEN "Ready"
  ELSE IF \/ page[id][w] \in {"error", "fallback"}
          \/ \E t \in tasks : t.id = id /\ t.w = w THEN "Error"
  ELSE "PlaceholderLoading"

\* the place of a phase in the order of the state machine; Error stands
\* beside Ready, after ContentLoading
phaseRank(p) ==
  CASE p = "Uninitialized" -> 0
    [] p = "PlaceholderLoading" -> 1
    [] p = "ContentLoading" -> 2
    [] p \in {"Ready", "Error"} -> 3
    [] p = "Destroyed" -> 4

\* C1: never is a second Browser constructed for an identifier, the registry
\* entry of an identifier is the Browser constructed for it, and once an
\* identifier is registered every later step (every get among them) leaves
\* the same Browser registered under it.
C1_SingleInstance ==
  /\ [](\A id \in AppBrowsersIdentifiers :
          /\ browserCount[id] <= 1
          /\ browsers[id] = browserCount[id])
  /\ [][\A id \in AppBrowsersIdentifiers :
          browsers[id] # 0 => browsers'[id] = browsers[id]]_vars

\* C1 witness: a get has just returned for settings, whose Browser is
\* registered and has already been through a close of its native window.
C1_Witness ==
  /\ ev = Event("get", "settings", TRUE)
  /\ browsers["settings"] = 1
  /\ nwin["settings"] >= 1
  /\ alive["settings"] = {}

\* C2: while the process is not quitting, no step destroys a native window
\* of a keepAlive identifier, and a close request on it leaves it hidden
\* with its interceptor, retry handler, managers and listeners as they were.
C2_KeepAliveVeto ==
  [][\A id \in AppBrowsersIdentifiers :
       (appBrowsers[id].keepAlive /\ ~isQuiting) =>
          /\ alive[id] \subseteq alive'[id]
          /\ (ev' = Event("close", id, TRUE) =>
                /\ visible'[id] = {}
                /\ alive'[id] = alive[id]
                /\ interceptors'[id] = interceptors[id]
                /\ invokeHandlers'[id] = invokeHandlers[id]
                /\ mgrWin'[id] = mgrWin[id]
                /\ eventListenersSetup'[id] = eventListenersSetup[id]
                /\ listeners'[id] = listeners[id])]_vars

\* C2 witness: a close request on the chat window, which had an armed retry
\* handler, was vetoed: the window is alive and hidden, the handler armed.
C2_Witness ==
  /\ ev = Event("close", "chat", TRUE)
  /\ ~isQuiting
  /\ alive["chat"] # {}
  /\ visible["chat"] = {}
  /\ invokeHandlers["chat"] # NoHandler
  /\ interceptors["chat"] # {}

\* C3 (as claimed): a get returns a Browser whose native window is live; in
\* particular after a close destroyed the window of a keepAlive=false
\* identifier, the get yields a fresh native window.
C3_GetYieldsLiveWindow ==
  \A id \in AppBrowsersIdentifiers :
    ev = Event("get", id, TRUE) => NativeLive(State, id, cur[id])

\* C4 (as claimed): after a close request while the process is quitting the
\* window is destroyed, its interceptor stopped and no retry handler is left
\* under its key.
C4_QuitCloseReleases ==
  \A id \in AppBrowsersIdentifiers :
    (ev = Event("close", id, TRUE) /\ isQuiting) =>
       /\ alive[id] = {}
       /\ interceptors[id] = {}
       /\ invokeHandlers[id] = NoHandler

\* C5 (as claimed): once the placeholder load of a live window has settled,
\* with success or with failure, the content load of that window is begun.
C5_ContentAfterPlaceholder ==
  \A id \in AppBrowsersIdentifiers :
    \A ok \in BOOLEAN :
      (ev = Event("placeholderSettled", id, ok) /\ NativeLive(State, id, cur[id]))
         => InitialContentLoad(id)

\* C6: a load of an application URL is in progress only on a native window
\* whose placeholder load has been started.
C6_PlaceholderFirst ==
  \A t \in tasks : t.pc = "url" => t.w \in placeholderStarted[t.id]

\* C6 witness: the initial content load of a window is in progress.
C6_Witness ==
  \E t \in tasks : t.kind = "loadUrl" /\ t.pc = "url" /\ ~t.thenShow /\ t.w \in alive[t.id]

C8_NoDoubleRegistration ==
  \A id \in AppBrowsersIdentifiers :
    /\ ev # Event("registrationFault", id, TRUE)
    /\ ev = Event("retryReturns", id, FALSE) => invokeHandlers[id] # NoHandler

\* C9 (as claimed): when a retry invocation returns success, no handler is
\* left under the window's key and the window shows the content.
C9_SuccessDeregisters ==
  \A id \in AppBrowsersIdentifiers :
    ev = Event("retryReturns", id, TRUE) =>
       /\ invokeHandlers[id] = NoHandler
       /\ \E w \in alive[id] : page[id][w] = "content"

\* C10 (as claimed): at most one retry invocation is in flight per window.
C10_OneRetryInFlight ==
  \A id \in AppBrowsersIdentifiers : Cardinality(RetriesInFlight(id)) <= 1

\* C11: a retry invocation never lets a fault out: every invocation that
\* completes, whatever became of the URL load, of the reload of the error
\* page and of the native window, returns a tagged outcome (success, or
\* failure) for its identifier.
C11_RetryReturnsTagged ==
  /\ [](ev.type # "retryThrows")
  /\ [][\A id \in AppBrowsersIdentifiers :
          Cardinality(RetriesInFlight(id)') < Cardinality(RetriesInFlight(id))
            => ev' \in {Event("retryReturns", id, TRUE), Event("retryReturns", id, FALSE)}]_vars

\* C11 witness: a retry of settings has returned failure after the native
\* window was destroyed while its load was in flight.
C11_Witness ==
  /\ ev = Event("retryReturns", "settings", FALSE)
  /\ nwin["settings"] >= 1
  /\ alive["settings"] = {}
  /\ invokeHandlers["settings"] # NoHandler

\* C12: on every renderer crash of a window the crash time is recorded; the
\* content is reloaded and the process goes on when it is the window's first
\* crash or more than 60 s have passed since its previous crash, and the
\* process exits with status 1 when at most 60 s have passed.
C12_CrashPolicy ==
  [][\A id \in AppBrowsersIdentifiers :
       (ev' \in {Event("reload", id, TRUE), Event("exit", id, TRUE)}) =>
          /\ lastRendererProcessCrashTime'[id] = now
          /\ IF crashTimes[id] = <<>> \/ now - crashTimes[id][1] > 60000
             THEN ev' = Event("reload", id, TRUE) /\ exitCode' = 0
             ELSE ev' = Event("exit", id, TRUE) /\ exitCode' # 0]_vars

\* C12 witness: the process has exited on a crash of settings exactly 60 s
\* after the previous crash of settings.
C12_Witness ==
  /\ ev = Event("exit", "settings", TRUE)
  /\ exitCode = 1
  /\ crashTimes["settings"] = <<now, now - 60000>>

\* C13: a crash of a window that has had no crash of its own in the
\* preceding 60 s reloads it and never ends the process, however recently
\* another window crashed.
C13_CrashPerWindow ==
  [][\A a, b \in AppBrowsersIdentifiers :
       (/\ a # b
        /\ crashTimes[a] # <<>> /\ now - crashTimes[a][1] < 60000
        /\ (crashTimes[b] = <<>> \/ now - crashTimes[b][1] > 60000)
        /\ ev'.type \in {"reload", "exit"} /\ ev'.id = b)
       => ev' = Event("reload", b, TRUE) /\ exitCode' = 0]_vars

\* C13 witness: settings has been reloaded on its first crash, 10 s after a
\* crash of chat.
C13_Witness ==
  /\ ev = Event("reload", "settings", TRUE)
  /\ exitCode = 0
  /\ crashTimes["settings"] = <<now>>
  /\ crashTimes["chat"] # <<>>
  /\ now - crashTimes["chat"][1] = 10000

\* C14: broadcastToWindow(id, ...) sends on no channel but the one of the
\* native window held by the Browser registered under id, and sends on it
\* exactly once when that window is alive, whichever other windows are.
C14_BroadcastAddressing ==
  \A id \in AppBrowsersIdentifiers :
    \A ok \in BOOLEAN :
      ev = Event("broadcastToWindow", id, ok) =>
        /\ \A i \in 1..Len(delivered) : delivered[i] = <<id, cur[id]>>
        /\ (browsers[id] # 0 /\ NativeLive(State, id, cur[id]))
             => delivered = << <<id, cur[id]>> >>

\* C14 witness: with chat, devtools and settings all alive, a broadcast to
\* settings has been sent on the channel of the settings window.
C14_Witness ==
  /\ ev = Event("broadcastToWindow", "settings", TRUE)
  /\ delivered = << <<"settings", cur["settings"]>> >>
  /\ \A id \in AppBrowsersIdentifiers : NativeLive(State, id, cur[id])

\* C15: broadcastToWindow(id, ...) for an identifier with no live instance
\* (no registered Browser, or a Browser whose native window is destroyed or
\* whose handle was dropped) delivers nothing, raises no error, constructs
\* no window and leaves the registry unchanged.
C15_BroadcastToAbsentWindow ==
  [][\A id \in AppBrowsersIdentifiers :
       (/\ ev'.type = "broadcastToWindow"
        /\ ev'.id = id
        /\ ~(browsers[id] # 0 /\ NativeLive(State, id, cur[id])))
       => /\ ev'.ok
          /\ delivered' = <<>>
          /\ nwin' = nwin
          /\ <<browsers, order, webContentsMap>>' = <<browsers, order, webContentsMap>>]_vars

\* C16: broadcastToAllWindows delivers exactly once to every registered
\* window whose native channel is alive and to none whose channel is
\* destroyed, whatever else is in the registry.
C16_BroadcastToAll ==
  ev.type = "broadcastToAllWindows" =>
    /\ \A id \in AppBrowsersIdentifiers :
         (browsers[id] # 0 /\ NativeLive(State, id, cur[id]))
           => Cardinality({i \in 1..Len(delivered) : delivered[i] = <<id, cur[id]>>}) = 1
    /\ \A i \in 1..Len(delivered) : delivered[i][2] \in alive[delivered[i][1]]

\* C17: once a window was torn down and a new native window created under
\* the same identifier is shown, the index maps the new channel to the
\* identifier and holds no entry of a destroyed channel of it.
C17_IndexFollowsRecreation ==
  \A id \in AppBrowsersIdentifiers :
    (/\ browsers[id] # 0
     /\ nwin[id] >= 2
     /\ alive[id] = {cur[id]}
     /\ cur[id] \in visible[id])
    => /\ getIdentifierByWebContents(webContentsMap, <<id, cur[id]>>) = id
       /\ \A e \in webContentsMap : e[1][1] = id => e[1][2] \in alive[id]

\* C20: a broadcast never ends by a thrown fault, whether the native handle
\* of a registered window was destroyed by a close or dropped by destroy().
C20_BroadcastNeverThrows ==
  ev.type \in {"broadcastToWindow", "broadcastToAllWindows"} => ev.ok

\* C19: show, hide and close called on a Browser whose native window has
\* been destroyed throw no fault, change no window state and construct no
\* native window.
C19_DisplayOpsOnDestroyedHandle ==
  [][\A id \in AppBrowsersIdentifiers :
       (/\ ev'.type \in {"show", "hide", "close"}
        /\ ev'.id = id
        /\ browsers[id] # 0
        /\ cur[id] # 0
        /\ cur[id] \notin alive[id])
       => /\ ev'.ok
          /\ nwin' = nwin
          /\ <<cur, alive, visible>>' = <<cur, alive, visible>>]_vars

C21_Toggle ==
  [][\A id \in AppBrowsersIdentifiers :
       (ev'.type = "toggle" /\ ev'.id = id /\ native[id].live) =>
         LET n == native[id] IN
           /\ (n.fullscreen /\ n.visible) => (native' = native /\ calls' = <<>>)
           /\ (~n.fullscreen /\ n.visible /\ n.focused) => ~native'[id].visible
           /\ (~n.fullscreen /\ n.visible /\ ~n.focused)
                => (calls' = << <<id, "focus">> >> /\ native'[id].visible)
           /\ ~n.visible => native'[id].visible]_vars

\* C21 witness: a visible, unfocused window has just been toggled and has
\* the focus, still visible, while another window is hidden by no call.
C21_Witness ==
  /\ ev = Event("toggle", "settings", TRUE)
  /\ calls = << <<"settings", "focus">> >>
  /\ native["settings"].visible /\ native["settings"].focused
  /\ native["chat"].visible /\ ~native["chat"].focused

\* C25: show on a minimized live window only restores it: restore is the
\* one call made on the window, and its visible-on-all-workspaces flag and
\* fullscreen state are as before.
C25_ShowMinimizedOnlyRestores ==
  [][\A id \in AppBrowsersIdentifiers :
       (/\ ev'.type \in {"show", "handleActivation"}
        /\ ev'.id = id
        /\ (ev'.type = "handleActivation" => id = "chat")
        /\ native[id].live
        /\ native[id].minimized)
       => /\ calls' = << <<id, "restore">> >>
          /\ ~native'[id].minimized
          /\ native'[id].visibleOnAllWorkspaces = native[id].visibleOnAllWorkspaces
          /\ native'[id].fullscreen = native[id].fullscreen
          /\ native'[id].focused = native[id].focused]_vars

\* C25 witness: the minimized settings window has just been shown by a
\* restore and nothing else.
C25_Witness ==
  /\ ev = Event("show", "settings", TRUE)
  /\ calls = << <<"settings", "restore">> >>
  /\ ~native["settings"].minimized

\* the calls of the show logic on the window of id, fullscreen being left
\* first or not
ShowLogicCalls(id, exitFullScreen, linux) ==
  (IF linux THEN <<>> ELSE << <<id, "setVisibleOnAllWorkspaces(true)">> >>)
  \o (IF exitFullScreen THEN << <<id, "setFullScreen(false)">> >> ELSE <<>>)
  \o << <<id, "show">>, <<id, "focus">> >>
  \o (IF linux THEN <<>> ELSE << <<id, "setVisibleOnAllWorkspaces(false)">> >>)

\* C26: every show of a live window that is not minimized sets the
\* visible-on-all-workspaces flag (not on Linux), leaves fullscreen first
\* when on macOS the window is fullscreen and not visible, shows, focuses
\* and clears the flag (not on Linux); between the operations the flag of
\* no window is set.
C26_ShowLogic ==
  /\ [](\A id \in AppBrowsersIdentifiers : ~native[id].visibleOnAllWorkspaces)
  /\ [][\A id \in AppBrowsersIdentifiers :
          (/\ ev'.type = "show"
           /\ ev'.id = id
           /\ native[id].live
           /\ ~native[id].minimized)
          => /\ calls' = ShowLogicCalls(id, platform = "darwin" /\ native[id].fullscreen
                                             /\ ~native[id].visible,
                                        platform = "linux")
             /\ native'[id].visible /\ native'[id].focused]_vars

\* C26 witness: on macOS a hidden fullscreen window has just been shown,
\* fullscreen left first, the flag set before and cleared after.
C26_Witness ==
  /\ platform = "darwin"
  /\ ev = Event("show", "settings", TRUE)
  /\ calls = ShowLogicCalls("settings", TRUE, FALSE)
  /\ native["settings"].visible /\ ~native["settings"].fullscreen
  /\ ~native["settings"].visibleOnAllWorkspaces

\* C28: shouldHideDock is true only on macOS with no other window visible,
\* and the vetoed close of a keepAlive window hides the dock only then, the
\* closing window being hidden already.
C28_DockHiddenOnlyWhenNoneVisible ==
  /\ [](\A id \in AppBrowsersIdentifiers :
          shouldHideDock(Display, id)
            => /\ platform = "darwin"
               /\ \A i \in AppBrowsersIdentifiers \ {id} : ~native[i].visible)
  /\ [][\A id \in AppBrowsersIdentifiers :
          (/\ ev' = Event("close", id, TRUE)
           /\ appBrowsers[id].keepAlive
           /\ native[id].live)
          => /\ ~native'[id].visible /\ native'[id].live
             /\ dockHidden' = (dockHidden \/ (platform = "darwin"
                               /\ \A i \in AppBrowsersIdentifiers : ~native'[i].visible))]_vars

\* C28 witness: on macOS the close of the chat window was vetoed while the
\* settings window was open but hidden, and the dock is hidden.
C28_Witness ==
  /\ platform = "darwin"
  /\ ev = Event("close", "chat", TRUE)
  /\ native["chat"].live /\ ~native["chat"].visible
  /\ native["settings"].live /\ ~native["settings"].visible
  /\ dockHidden

\* C27: after centerOnDisplay the window's top-left is not left of nor
\* above the origin of the work area used, whatever the window's size.
C27_CenterClamped ==
  \A id \in AppBrowsersIdentifiers :
    ev = Event("centerOnDisplay", id, TRUE) =>
      /\ geometry[id].x >= workArea.x
      /\ geometry[id].y >= workArea.y

\* C29: a show of a child window whose parent has no live instance does
\* not place the child relative to a parent, raises no error and completes
\* with the child shown.
C29_MissingParentDefaultPosition ==
  [][\A id \in AppBrowsersIdentifiers :
       LET parent == appBrowsers[id].parentIdentifier IN
         (/\ ev'.type = "show"
          /\ ev'.id = id
          /\ parent # ""
          /\ NativeLive(State, id, cur[id])
          /\ (browsers[parent] = 0 \/ ~NativeLive(State, parent, cur[parent])))
         => /\ ev'.ok
            /\ id \notin positioned'
            /\ cur'[id] \in visible'[id]]_vars

\* C24: getting a window with an identifier that the catalog does not hold
\* raises a fault, registers nothing and leaves the registry, its index and
\* the native windows as they were.
C24_UnknownIdentifierIsFatal ==
  [][(ev'.type = "get" /\ ev'.id \notin AppBrowsersIdentifiers)
       => /\ ~ev'.ok
          /\ <<browsers, browserCount, order, webContentsMap, mapListeners>>'
               = <<browsers, browserCount, order, webContentsMap, mapListeners>>
          /\ <<cur, nwin, alive>>' = <<cur, nwin, alive>>]_vars

\* C24 witness: with the chat window registered, a get of the identifier
\* provider has just ended by a fault.
C24_Witness ==
  /\ ev = Event("get", "provider", FALSE)
  /\ browsers["chat"] # 0
  /\ order = <<"chat">>

\* C22: apart from a requested show, a native window becomes visible only
\* by its own ready-to-show signal and only if showOnInit is set; the
\* signal of a window with showOnInit unset shows nothing; the signal is
\* awaited only by a window just constructed, so it acts at most once per
\* native window.  Violated after destroy(): the signal of the window left
\* behind shows the window constructed since, which has not signalled yet.
C22_ShowOnInitAfterReady ==
  [][\A id \in AppBrowsersIdentifiers :
       /\ \A w \in Wins :
            (w \notin visible[id] /\ w \in visible'[id] /\ ev' # Event("show", id, TRUE))
            => /\ ev' = Event("readyToShow", id, TRUE)
               /\ appBrowsers[id].showOnInit
               /\ w \in readyPending[id] /\ w \notin readyPending'[id]
       /\ (ev' = Event("readyToShow", id, TRUE) /\ ~appBrowsers[id].showOnInit)
            => visible' = visible
       /\ \A w \in Wins :
            (w \notin readyPending[id] /\ w \in readyPending'[id])
            => (w \notin alive[id] /\ nwin[id] < w /\ nwin'[id] = w)]_vars

\* C23: a content load that began on a native window which is no longer the
\* Browser's handle does not act on the window that replaced it when it completes:
\* its completion begins no error-page or fallback load on another window,
\* and the error handling of a load sequence begun on one window neither
\* puts the error page into another window nor changes the retry handler.
C23_StaleCompletionIgnored ==
  [][\A t \in tasks :
       /\ (t.kind = "loadUrl" /\ t.pc = "url" /\ t.w # cur[t.id] /\ t \notin tasks')
            => \A u \in tasks' \ tasks :
                 ~(u.kind = "loadUrl" /\ u.pc \in {"errorPage", "fallback"} /\ u.w # t.w)
       /\ (t.kind = "loadUrl" /\ t.pc = "errorPage" /\ ~t.thenShow /\ t.n # t.w
             /\ t \notin tasks')
            => /\ page'[t.id][t.w] = page[t.id][t.w]
               /\ invokeHandlers'[t.id] = invokeHandlers[t.id]]_vars

\* C30: no load failure lets a fault out of loadUrl or ends the process:
\* loadUrl never rejects, whatever became of the URL load, of the error-page
\* load and of the fallback load (so redirectToPage, which awaits it, always
\* goes on to show the window when that one is alive), and no step that
\* settles a load changes the exit status.
C30_LoadFailureContained ==
  /\ [](ev.type # "loadUrlRejects")
  /\ [][\A t \in tasks :
          (/\ t.kind = "loadUrl" /\ t.thenShow /\ t \notin tasks'
           /\ ~\E u \in tasks' : u.kind = "loadUrl" /\ u.thenShow /\ u.id = t.id /\ u.n = t.n
           /\ cur'[t.id] \in alive'[t.id])
          => cur'[t.id] \in visible'[t.id]]_vars
  /\ [][(tasks' # tasks \/ failures' # failures) => exitCode' = exitCode]_vars

\* C30 witness: the URL load, the error-page load and the fallback load of a
\* redirect of settings have all failed, loadUrl has returned and the
\* process runs.
C30_Witness ==
  /\ ev = Event("fallbackDone", "settings", FALSE)
  /\ failures = MaxFailures
  /\ ~\E t \in tasks : t.id = "settings"
  /\ browsers["settings"] # 0
  /\ exitCode = 0

\* C33: evaluating isWindowValid(id) creates no native window and changes
\* nothing of the windows, the registry or its index.
C33_IsWindowValidChangesNothing ==
  [][\A id \in AppBrowsersIdentifiers :
       ev' = Event("isWindowValid", id, TRUE)
         => /\ nwin' = nwin /\ alive' = alive /\ cur' = cur /\ mgrWin' = mgrWin
            /\ tasks' = tasks /\ listeners' = listeners
            /\ browsers' = browsers /\ order' = order
            /\ webContentsMap' = webContentsMap]_vars

\* C34: at most one native window per identifier is alive, and a native
\* window is constructed for an identifier only when none of that identifier
\* is alive.
C34_OneLiveWindowPerIdentifier ==
  /\ [](\A id \in AppBrowsersIdentifiers : Cardinality(alive[id]) <= 1)
  /\ [][\A id \in AppBrowsersIdentifiers : nwin'[id] # nwin[id] => alive[id] = {}]_vars

\* C35: a show request for an identifier without keepAlive whose native
\* window was destroyed by a close leaves a native window of that identifier
\* alive, and visible at once or awaiting the ready-to-show signal that
\* shows it.
C35_ShowReopensClosedWindow ==
  [][\A id \in AppBrowsersIdentifiers :
       (/\ ~appBrowsers[id].keepAlive
        /\ cur[id] # 0 /\ alive[id] = {}
        /\ ev' = Event("show", id, TRUE))
       => \E w \in alive'[id] :
            \/ w \in visible'[id]
            \/ w \in readyPending'[id] /\ appBrowsers[id].showOnInit]_vars

\* C36: once a window is torn down, by a close that destroys its native
\* window or by destroy(), no retry handler is registered under its key.
C36_TearDownRemovesRetryHandler ==
  [][\A id \in AppBrowsersIdentifiers :
       \/ ev' = Event("close", id, TRUE) /\ alive[id] # {} /\ alive'[id] = {}
       \/ ev' = Event("destroy", id, TRUE)
       => invokeHandlers'[id] = NoHandler]_vars

\* C37: the channel of every live native window a registered Browser holds,
\* hidden or not, resolves to the identifier of that window, and no channel
\* resolves to another identifier than its window's.
C37_ChannelResolvesToOwner ==
  /\ \A id \in AppBrowsersIdentifiers :
       (browsers[id] # 0 /\ cur[id] \in alive[id])
         => getIdentifierByWebContents(webContentsMap, <<id, cur[id]>>) = id
  /\ \A e \in webContentsMap : e[2] = e[1][1]

\* C38: whenever the error page has loaded after a failed content load, the
\* retry handler registered for the window holds the URL of that load, the
\* most recent one that failed, and every retry invoked loads the URL of
\* the handling that last completed.
C38_RetryLoadsLatestFailedUrl ==
  [][\A t \in tasks :
       (/\ t.kind = "loadUrl" /\ t.pc = "errorPage" /\ t \notin tasks'
        /\ ev' \in {Event("loadErrorHandled", t.id, TRUE), Event("registrationFault", t.id, TRUE)})
       => /\ invokeHandlers'[t.id] # NoHandler
          /\ invokeHandlers'[t.id].url = t.url]_vars

\* C39: the listeners on nativeTheme are never more than the native windows
\* alive: each belongs to the WindowThemeManager of a window that is alive.
C39_ThemeListenersBounded ==
  /\ Cardinality(themeListeners)
       <= Cardinality({e \in AppBrowsersIdentifiers \X Wins : e[2] \in alive[e[1]]})
  /\ \A e \in themeListeners : e[2] \in alive[e[1]]

\* C40: every resize or restore of a live native window on which
\* setZoomFactor(f) was last called leaves the window at f, whatever was set
\* on other windows meanwhile; setZoomFactor on a destroyed window changes
\* neither the window nor the stored value.
C40_ZoomPerWindow ==
  [][\A id \in AppBrowsersIdentifiers :
       /\ (ev' \in {Event("resize", id, TRUE), Event("restore", id, TRUE)}
             /\ zoomLastSet[id] \in ZoomFactors)
            => zoomWindow'[id].factor = zoomLastSet[id]
       /\ (ev' = Event("setZoomFactor", id, TRUE) /\ ~zoomWindow[id].live)
            => zoomWindow' = zoomWindow /\ zoomStore' = zoomStore]_vars

\* C32: the phase of a native window never goes backward in the order of
\* the state machine, except from Error to ContentLoading by an invocation
\* of the retry handler.
C32_PhaseMonotonic ==
  [][\A id \in AppBrowsersIdentifiers : \A w \in Wins :
       \/ phaseRank(phase(id, w)') >= phaseRank(phase(id, w))
       \/ /\ phase(id, w) = "Error"
          /\ phase(id, w)' = "ContentLoading"
          /\ \E t \in tasks' \ tasks : t.kind = "retry" /\ t.id = id /\ t.w = w]_vars

\* the entries of the index of channels that belong to identifier id: those
\* of its channels and those that resolve to it
channelEntries(m, id) == {e \in m : e[1][1] = id \/ e[2] = id}

====
